---- MODULE Spec2Model ----
(***************************************************************************)
(* A model of libhx2: the byte stream (stream.c), the container reader and *)
(* writer (hx2.c, the HX_Context revision) and the audio conversion entry  *)
(* point.  Integers wider than TLC's are kept as tuples of bytes, most      *)
(* significant byte first ("digits"); a variable in memory is the tuple of  *)
(* its bytes in host order.                                                 *)
(***************************************************************************)
EXTENDS Integers, Sequences, FiniteSets, TLC

(***************************************************************************)
(* Bounds of the model.                                                    *)
(***************************************************************************)
BenchSize == 12
MaxBenchOps == 5

(***************************************************************************)
(* stream.h                                                                *)
(***************************************************************************)
HX_BIG_ENDIAN == 1
HX_LITTLE_ENDIAN == 0
\* The host the library is built for stores the low byte first.
HX_NATIVE_ENDIAN == 0
STREAM_MODE_READ == 0
STREAM_MODE_WRITE == 1

RECURSIVE Reverse(_)
Reverse(q) == IF q = <<>> THEN <<>> ELSE Reverse(Tail(q)) \o <<Head(q)>>

Zeros(n) == <<>> \o [i \in 1 .. n |-> 0]

\* The statements of a routine run one after the other: r, what the statements
\* so far have returned, is evaluated before the rest of the routine starts.
Then(r, rest) == IF r = r THEN rest ELSE rest

\* The bytes of a variable as they lie in host memory, and back.
HostBytes(w) == IF HX_NATIVE_ENDIAN = HX_LITTLE_ENDIAN THEN Reverse(w) ELSE w
FromHost(b) == IF HX_NATIVE_ENDIAN = HX_LITTLE_ENDIAN THEN Reverse(b) ELSE b

HX_BYTESWAP16(w) == <<w[2], w[1]>>
HX_BYTESWAP32(w) == HX_BYTESWAP16(<<w[3], w[4]>>) \o HX_BYTESWAP16(<<w[1], w[2]>>)

\* memcpy out of and into a buffer; positions count from 0.  A buffer is kept
\* as its materialised prefix: the bytes behind it are zero (malloc + memset).
BufGet(buf, pos, n) ==
  IF pos >= Len(buf) THEN Zeros(n)
  ELSE IF pos + n <= Len(buf) THEN SubSeq(buf, pos + 1, pos + n)
  ELSE SubSeq(buf, pos + 1, Len(buf)) \o Zeros(pos + n - Len(buf))
BufPut(buf, pos, b) ==
  LET base == IF pos > Len(buf) THEN buf \o Zeros(pos - Len(buf)) ELSE buf
  IN SubSeq(base, 1, pos) \o b \o SubSeq(base, pos + Len(b) + 1, Len(base))

\* over: an access through the stream has gone past size (not a field of
\* stream_t; it records that the bytes moved were outside the buffer).
stream_create(data, size, mode, endianness) ==
  [buf |-> data, size |-> size, pos |-> 0, mode |-> mode, endianness |-> endianness,
   over |-> FALSE]

stream_alloc(size, mode, endianness) ==
  stream_create(<<>>, size, mode, endianness)

doswap(s, mode) == (s.endianness # HX_NATIVE_ENDIAN) /\ (s.mode = mode)

stream_seek(s, pos) == [s EXCEPT !.pos = pos]

stream_advance(s, offset) == [s EXCEPT !.pos = s.pos + offset]

\* data is the memory the caller hands in, size bytes of it are copied.
stream_rw(s, data, size) ==
  [s |-> stream_advance(
           [s EXCEPT !.buf = IF s.mode = STREAM_MODE_WRITE
                               THEN BufPut(s.buf, s.pos, BufGet(data, 0, size)) ELSE @,
                     !.over = @ \/ (size > 0 /\ s.pos + size > s.size)],
           size),
   data |-> IF s.mode = STREAM_MODE_READ THEN BufGet(s.buf, s.pos, size) ELSE data]

\* the variable of the caller after stream_rw has returned r
Variable(r) == [s |-> r.s, v |-> FromHost(r.data)]

stream_rw8(s, v) == Variable(stream_rw(s, HostBytes(v), 1))

\* the swap before stream_rw (on a write) and the swap after it
Swap16Before(s, v) == IF doswap(s, STREAM_MODE_WRITE) THEN HX_BYTESWAP16(v) ELSE v
Swap16After(s, r) ==
  IF doswap(s, STREAM_MODE_READ) \/ doswap(s, STREAM_MODE_WRITE)
    THEN [r EXCEPT !.v = HX_BYTESWAP16(@)] ELSE r

stream_rw16(s, v) ==
  Swap16After(s, Variable(stream_rw(s, HostBytes(Swap16Before(s, v)), 2)))

Swap32Before(s, v) == IF doswap(s, STREAM_MODE_WRITE) THEN HX_BYTESWAP32(v) ELSE v
Swap32After(s, r) ==
  IF doswap(s, STREAM_MODE_READ) \/ doswap(s, STREAM_MODE_WRITE)
    THEN [r EXCEPT !.v = HX_BYTESWAP32(@)] ELSE r
\* the swap after stream_rw done on a write only
Swap32AfterWrite(s, r) ==
  IF doswap(s, STREAM_MODE_WRITE) THEN [r EXCEPT !.v = HX_BYTESWAP32(@)] ELSE r

\* stream_rw32 without the swap after a read
stream_rw32_noreadswap(s, v) ==
  Swap32AfterWrite(s, Variable(stream_rw(s, HostBytes(Swap32Before(s, v)), 4)))

stream_rw32(s, v) ==
  Swap32After(s, Variable(stream_rw(s, HostBytes(Swap32Before(s, v)), 4)))

stream_rwfloat(s, v) == stream_rw32(s, v)

\* (unsigned int*)cuuid + k: the k-th 32-bit word of the 64-bit variable in memory.
WordAt(c, k) == FromHost(BufGet(HostBytes(c), 4 * k, 4))
SetWordAt(c, k, w) == FromHost(BufPut(HostBytes(c), 4 * k, HostBytes(w)))

\* the second call of stream_rwcuuid: word k2 of the variable, after the call
\* for word k1 has returned r
SecondWord(c, k2, r) == [s |-> r.s, v |-> SetWordAt(c, k2, r.v)]
FirstWord(c, k1, k2, r) ==
  SecondWord(SetWordAt(c, k1, r.v), k2,
             stream_rw32(r.s, WordAt(SetWordAt(c, k1, r.v), k2)))

\* stream_rwcuuid with the two words in memory order
stream_rwcuuid_lowfirst(s, c) == FirstWord(c, 0, 1, stream_rw32(s, WordAt(c, 0)))

stream_rwcuuid(s, c) == FirstWord(c, 1, 0, stream_rw32(s, WordAt(c, 1)))

(***************************************************************************)
(* 32-bit words as numbers.  A word of 2^30 or more lies behind every      *)
(* buffer of the model and is counted as 2^30 - 1.                         *)
(***************************************************************************)
ToNat(w) ==
  IF w[1] >= 64 THEN 1073741823
  ELSE ((w[1] * 256 + w[2]) * 256 + w[3]) * 256 + w[4]
FromNat(n) ==
  <<(n \div 16777216) % 256, (n \div 65536) % 256, (n \div 256) % 256, n % 256>>
Word0 == <<0, 0, 0, 0>>

(***************************************************************************)
(* Consecutive stream_rw* calls on the fields of one struct.  A field is   *)
(* named by f (and by i, from 1, when it is an element of an array) and k  *)
(* tells which call is made on it: stream_rw8, stream_rw16, stream_rw32,   *)
(* stream_rwfloat, stream_rwcuuid, "str" for a string (stream_rw32 on its  *)
(* strlen, then stream_rw of that many bytes into it) and "raw" for        *)
(* stream_rw of n bytes.                                                   *)
(***************************************************************************)
F(f, k) == [f |-> f, i |-> 0, k |-> k, n |-> 0]
At(f, i, k) == [f |-> f, i |-> i, k |-> k, n |-> 0]
Raw(f, n) == [f |-> f, i |-> 0, k |-> "raw", n |-> n]

FieldOf(data, var) == IF var.i = 0 THEN data[var.f] ELSE data[var.f][var.i]
SetField(data, var, v) ==
  IF var.i = 0 THEN [data EXCEPT ![var.f] = v] ELSE [data EXCEPT ![var.f][var.i] = v]

\* the bytes stream_rw has moved, as the value of the variable
Bytes(r) == [s |-> r.s, v |-> r.data]
\* stream_rw of the string after stream_rw32 on its length has returned r
stream_rw_chars(str, r) == Bytes(stream_rw(r.s, str, ToNat(r.v)))
stream_rw_str(s, str) == stream_rw_chars(str, stream_rw32(s, FromNat(Len(str))))

stream_rw_var(s, var, v) ==
  CASE var.k = "8" -> stream_rw8(s, v)
    [] var.k = "16" -> stream_rw16(s, v)
    [] var.k = "32" -> stream_rw32(s, v)
    [] var.k = "float" -> stream_rwfloat(s, v)
    [] var.k = "cuuid" -> stream_rwcuuid(s, v)
    [] var.k = "str" -> stream_rw_str(s, v)
    [] var.k = "raw" -> Bytes(stream_rw(s, v, var.n))

\* the calls on the fields vars of data, in order: the stream and the struct
\* after the last of them
RECURSIVE stream_rw_fields(_, _, _)
stream_rw_field(data, vars, r) ==
  Then(r, stream_rw_fields(r.s, SetField(data, Head(vars), r.v), Tail(vars)))
stream_rw_fields(s, data, vars) ==
  IF vars = <<>> THEN [s |-> s, data |-> data]
  ELSE stream_rw_field(data, vars, stream_rw_var(s, Head(vars), FieldOf(data, Head(vars))))

(***************************************************************************)
(* hx2.h: enumerations and limits.                                         *)
(***************************************************************************)
HX_VERSION_HXD == 0
HX_VERSION_HXC == 1
HX_VERSION_HX2 == 2
HX_VERSION_HXG == 3
HX_VERSION_HXX == 4
HX_VERSION_HX3 == 5
HX_VERSION_INVALID == 6

HX_CLASS_EVENT_RESOURCE_DATA == 0
HX_CLASS_WAVE_RESOURCE_DATA == 1
HX_CLASS_SWITCH_RESOURCE_DATA == 2
HX_CLASS_RANDOM_RESOURCE_DATA == 3
HX_CLASS_PROGRAM_RESOURCE_DATA == 4
HX_CLASS_WAVE_FILE_ID_OBJECT == 5
HX_CLASS_INVALID == 6

HX_LANGUAGE_DE == 0
HX_LANGUAGE_EN == 1
HX_LANGUAGE_ES == 2
HX_LANGUAGE_FR == 3
HX_LANGUAGE_IT == 4
HX_LANGUAGE_UNKNOWN == 5

HX_AUDIO_FORMAT_PCM == 1
HX_AUDIO_FORMAT_UBI == 2
HX_AUDIO_FORMAT_PSX == 3
HX_AUDIO_FORMAT_DSP == 4
HX_AUDIO_FORMAT_IMA == 5
HX_AUDIO_FORMAT_MP3 == 85

HX_INVALID_CUUID == <<0, 0, 0, 0, 0, 0, 0, 0>>
HX_WAVRES_OBJ_FLAG_MULTIPLE == 2
HX_ID_OBJ_PTR_FLAG_EXTERNAL == 1

Versions == HX_VERSION_HXD .. HX_VERSION_HX3
Classes == HX_CLASS_EVENT_RESOURCE_DATA .. HX_CLASS_WAVE_FILE_ID_OBJECT

(***************************************************************************)
(* C strings are tuples of character codes, without the terminator.        *)
(***************************************************************************)
Str_C == <<67>>
Str_PC == <<80, 67>>
Str_GC == <<71, 67>>
Str_PS2 == <<80, 83, 50>>
Str_PS3 == <<80, 83, 51>>
Str_XBox == <<88, 66, 111, 120>>
Str_EventResData == <<69, 118, 101, 110, 116, 82, 101, 115, 68, 97, 116, 97>>
Str_WavResData == <<87, 97, 118, 82, 101, 115, 68, 97, 116, 97>>
Str_SwitchResData == <<83, 119, 105, 116, 99, 104, 82, 101, 115, 68, 97, 116, 97>>
Str_RandomResData == <<82, 97, 110, 100, 111, 109, 82, 101, 115, 68, 97, 116, 97>>
Str_ProgramResData == <<80, 114, 111, 103, 114, 97, 109, 82, 101, 115, 68, 97, 116, 97>>
Str_WaveFileIdObj == <<87, 97, 118, 101, 70, 105, 108, 101, 73, 100, 79, 98, 106>>
Str_hxd == <<104, 120, 100>>
Str_hxc == <<104, 120, 99>>
Str_hx2 == <<104, 120, 50>>
Str_hxg == <<104, 120, 103>>
Str_hxx == <<104, 120, 120>>
Str_hx3 == <<104, 120, 51>>
Str_DotBackslash == <<46, 92>>
Str_Underscore == <<95>>
Str_DE == <<68, 69>>
Str_EN == <<69, 78>>
Str_ES == <<69, 83>>
Str_FR == <<70, 82>>
Str_IT == <<73, 84>>
Str_UnknownLanguage ==
  <<85, 110, 107, 110, 111, 119, 110, 32, 76, 97, 110, 103, 117, 97, 103, 101>>
\* "This file was written by libhx2."
Str_WrittenBy ==
  <<84, 104, 105, 115, 32, 102, 105, 108, 101, 32, 119, 97, 115, 32, 119, 114,
    105, 116, 116, 101, 110, 32, 98, 121, 32, 108, 105, 98, 104, 120, 50, 46>>

\* strncmp(name, p, strlen(p)) == 0
HasPrefix(name, p) == Len(name) >= Len(p) /\ SubSeq(name, 1, Len(p)) = p
Drop(name, n) == SubSeq(name, n + 1, Len(name))

\* the bytes of a buffer up to its first NUL (the value of a C string in it)
CStr(b) ==
  IF \E i \in 1 .. Len(b) : b[i] = 0
    THEN SubSeq(b, 1, (CHOOSE i \in 1 .. Len(b) :
                         b[i] = 0 /\ \A j \in 1 .. i - 1 : b[j] # 0) - 1)
    ELSE b

tolower(c) == IF c >= 65 /\ c <= 90 THEN c + 32 ELSE c
Lower(str) == <<>> \o [i \in 1 .. Len(str) |-> tolower(str[i])]
strcasecmp(a, b) == IF Lower(a) = Lower(b) THEN 0 ELSE 1

\* strrchr(str, c): the index of the last c in str, 0 when there is none
RECURSIVE strrchr(_, _)
strrchr(str, c) ==
  IF str = <<>> THEN 0
  ELSE IF str[Len(str)] = c THEN Len(str)
  ELSE strrchr(SubSeq(str, 1, Len(str) - 1), c)

(***************************************************************************)
(* hx2.c: the tables.                                                      *)
(***************************************************************************)
hx_version_table ==
  [v \in Versions |->
     CASE v = HX_VERSION_HXD -> [name |-> Str_hxd, platform |-> Str_PC, endianness |-> HX_BIG_ENDIAN]
       [] v = HX_VERSION_HXC -> [name |-> Str_hxc, platform |-> Str_PC, endianness |-> HX_LITTLE_ENDIAN]
       [] v = HX_VERSION_HX2 -> [name |-> Str_hx2, platform |-> Str_PS2, endianness |-> HX_LITTLE_ENDIAN]
       [] v = HX_VERSION_HXG -> [name |-> Str_hxg, platform |-> Str_GC, endianness |-> HX_BIG_ENDIAN]
       [] v = HX_VERSION_HXX -> [name |-> Str_hxx, platform |-> Str_XBox, endianness |-> HX_BIG_ENDIAN]
       [] v = HX_VERSION_HX3 -> [name |-> Str_hx3, platform |-> Str_PS3, endianness |-> HX_LITTLE_ENDIAN]]

hx_class_table ==
  [c \in Classes |->
     CASE c = HX_CLASS_EVENT_RESOURCE_DATA -> [name |-> Str_EventResData, crossversion |-> 1]
       [] c = HX_CLASS_WAVE_RESOURCE_DATA -> [name |-> Str_WavResData, crossversion |-> 0]
       [] c = HX_CLASS_SWITCH_RESOURCE_DATA -> [name |-> Str_SwitchResData, crossversion |-> 1]
       [] c = HX_CLASS_RANDOM_RESOURCE_DATA -> [name |-> Str_RandomResData, crossversion |-> 1]
       [] c = HX_CLASS_PROGRAM_RESOURCE_DATA -> [name |-> Str_ProgramResData, crossversion |-> 1]
       [] c = HX_CLASS_WAVE_FILE_ID_OBJECT -> [name |-> Str_WaveFileIdObj, crossversion |-> 0]]

\* name with the prefix p skipped when it starts with p
SkipPrefix(name, p) == IF HasPrefix(name, p) THEN Drop(name, Len(p)) ELSE name

\* the loop over hx_class_table on what is left of the name
hx_class_of_name(name) ==
  IF HasPrefix(name, Str_EventResData) THEN HX_CLASS_EVENT_RESOURCE_DATA
  ELSE IF HasPrefix(name, Str_WavResData) THEN HX_CLASS_WAVE_RESOURCE_DATA
  ELSE IF HasPrefix(name, Str_SwitchResData) THEN HX_CLASS_SWITCH_RESOURCE_DATA
  ELSE IF HasPrefix(name, Str_RandomResData) THEN HX_CLASS_RANDOM_RESOURCE_DATA
  ELSE IF HasPrefix(name, Str_ProgramResData) THEN HX_CLASS_PROGRAM_RESOURCE_DATA
  ELSE IF HasPrefix(name, Str_WaveFileIdObj) THEN HX_CLASS_WAVE_FILE_ID_OBJECT
  ELSE HX_CLASS_INVALID

\* hx_class_from_string without the step over "PS3"
hx_class_from_string_nops3(name) ==
  IF name = <<>> \/ Head(name) # 67 THEN HX_CLASS_INVALID
  ELSE hx_class_of_name(
         SkipPrefix(SkipPrefix(SkipPrefix(SkipPrefix(Tail(name),
           Str_PC), Str_GC), Str_PS2), Str_XBox))

hx_class_from_string(name) ==
  IF name = <<>> \/ Head(name) # 67 THEN HX_CLASS_INVALID
  ELSE hx_class_of_name(
         SkipPrefix(SkipPrefix(SkipPrefix(SkipPrefix(SkipPrefix(Tail(name),
           Str_PC), Str_GC), Str_PS2), Str_PS3), Str_XBox))

hx_language_from_code(code) ==
  CASE code = <<100, 101, 32, 32>> -> HX_LANGUAGE_DE
    [] code = <<101, 110, 32, 32>> -> HX_LANGUAGE_EN
    [] code = <<101, 115, 32, 32>> -> HX_LANGUAGE_ES
    [] code = <<102, 114, 32, 32>> -> HX_LANGUAGE_FR
    [] code = <<105, 116, 32, 32>> -> HX_LANGUAGE_IT
    [] OTHER -> HX_LANGUAGE_UNKNOWN

hx_language_to_code(language) ==
  CASE language = HX_LANGUAGE_DE -> <<100, 101, 32, 32>>
    [] language = HX_LANGUAGE_EN -> <<101, 110, 32, 32>>
    [] language = HX_LANGUAGE_ES -> <<101, 115, 32, 32>>
    [] language = HX_LANGUAGE_FR -> <<102, 114, 32, 32>>
    [] language = HX_LANGUAGE_IT -> <<105, 116, 32, 32>>
    [] OTHER -> Word0

hx_language_name(language) ==
  CASE language = HX_LANGUAGE_DE -> Str_DE
    [] language = HX_LANGUAGE_EN -> Str_EN
    [] language = HX_LANGUAGE_ES -> Str_ES
    [] language = HX_LANGUAGE_FR -> Str_FR
    [] language = HX_LANGUAGE_IT -> Str_IT
    [] OTHER -> Str_UnknownLanguage

\* snprintf(buf, buf_sz, "C%s%s", ...): the name formed (its length is returned)
hx_class_name(class, version) ==
  LET v == hx_version_table[version]
      c == hx_class_table[class]
  IN Str_C \o (IF c.crossversion # 0 THEN <<>> ELSE v.platform) \o c.name

(***************************************************************************)
(* hx2.c: the classes.  The routines take and return the running state     *)
(*   c = [hx, disk, errs, fill]: the context, the files the callbacks     *)
(*   reach, the messages handed to the error callback, and the byte that   *)
(*   memory holds where the program has not written it (0 for fresh pages).*)
(***************************************************************************)
IsRead(c) == c.hx.stream.mode = STREAM_MODE_READ
IsWrite(c) == c.hx.stream.mode = STREAM_MODE_WRITE
WithStream(c, st) == [c EXCEPT !.hx.stream = st]

\* memory that malloc returned and nothing has written
UninitWord(fill) == <<fill, fill, fill, fill>>
UninitCuuid(fill) == <<fill, fill, fill, fill, fill, fill, fill, fill>>
UninitStr(fill) == IF fill = 0 THEN <<>> ELSE <<fill>>
\* the C string in a buffer that received n bytes and no terminator
Unterminated(got, fill) == CStr(got \o UninitStr(fill))

\* x & (1 << bit) on a byte
Bit(x, bit) == (x \div (2 ^ bit)) % 2 = 1

hx_error(c, msg) == [c EXCEPT !.errs = Append(@, msg)]

\* read_cb(filename, pos, &size) as the tool provides it: size bytes of the
\* file from pos on, size cut to the length of the file (SIZE_MAX is given as
\* -1); NULL when there is no file
NULL == [null |-> TRUE]
\* a pointer to a buffer holding the bytes b
Buf(b) == [null |-> FALSE, data |-> b]
read_cb(disk, filename, pos, size) ==
  IF filename \notin DOMAIN disk THEN NULL
  ELSE LET f == disk[filename]
           n == IF size < 0 \/ size > Len(f) THEN Len(f) ELSE size
       IN [null |-> FALSE, data |-> BufGet(f, pos, n), size |-> n]

\* write_cb(filename, data, pos, &size) as the tool provides it: the file is
\* made anew and size bytes are stored at pos
write_cb(disk, filename, data, pos, size) ==
  (filename :> BufPut(<<>>, pos, BufGet(data, 0, size))) @@ disk

Malloc_EventResData(fill) ==
  [type |-> UninitWord(fill), name |-> UninitStr(fill), flags |-> UninitWord(fill),
   link |-> UninitCuuid(fill),
   c |-> <<UninitWord(fill), UninitWord(fill), UninitWord(fill), UninitWord(fill)>>]

\* hx_entry_data(): the struct the routine works on
EntryData(c, entry, fresh) == IF IsWrite(c) THEN entry.p_data ELSE fresh

\* a name of the struct after the routine: on a read, the bytes that came
\* into the allocated buffer, which nothing terminated
NameRead(c, data) ==
  IF IsRead(c) THEN [data EXCEPT !.name = Unterminated(@, c.fill)] ELSE data

EventResData_fields ==
  <<F("type", "32"), F("name", "str"), F("flags", "32"), F("link", "cuuid"),
    At("c", 1, "float"), At("c", 2, "float"), At("c", 3, "float"), At("c", 4, "float")>>

EventResData_return(c, entry, r) ==
  [c |-> WithStream(c, r.s), ret |-> 0,
   entry |-> [entry EXCEPT !.p_data = NameRead(c, r.data)]]

EventResData(c, entry) ==
  EventResData_return(c, entry,
    stream_rw_fields(c.hx.stream, EntryData(c, entry, Malloc_EventResData(c.fill)),
                     EventResData_fields))

Malloc_WavResData(fill) ==
  [res_data |-> [id |-> UninitWord(fill), name |-> UninitStr(fill),
                 size |-> UninitWord(fill),
                 c |-> <<UninitWord(fill), UninitWord(fill), UninitWord(fill)>>,
                 flags |-> <<fill>>],
   default_cuuid |-> UninitCuuid(fill), num_links |-> UninitWord(fill), links |-> <<>>]

WavResObj_fields(version) ==
  <<F("id", "32")>>
    \o (IF version = HX_VERSION_HXC THEN <<F("name", "str")>> ELSE <<>>)
    \o (IF version = HX_VERSION_HXG \/ version = HX_VERSION_HX2
          THEN <<F("size", "32")>> ELSE <<>>)
    \o <<At("c", 1, "float"), At("c", 2, "float"), At("c", 3, "float"), F("flags", "8")>>

\* the name after the calls: read into the struct (HXC), cleared by the
\* memset (HXG, HX2), or as it was
WavResObj_return(c, r) ==
  [c |-> WithStream(c, r.s),
   data |-> IF c.hx.version = HX_VERSION_HXG \/ c.hx.version = HX_VERSION_HX2
              THEN [r.data EXCEPT !.name = <<>>]
            ELSE IF c.hx.version = HX_VERSION_HXC THEN NameRead(c, r.data)
            ELSE r.data]

WavResObj(c, data) ==
  WavResObj_return(c, stream_rw_fields(c.hx.stream, data, WavResObj_fields(c.hx.version)))

\* the loop over data->links: links i .. n
RECURSIVE WavResData_links(_, _, _, _, _)
WavResData_link(links, i, n, fill, rd, r) ==
  WavResData_links(r.s,
    IF i <= Len(links)
      THEN [links EXCEPT ![i] = [language |-> IF rd THEN hx_language_from_code(r.data.code)
                                              ELSE @.language,
                                 cuuid |-> r.data.cuuid]]
      ELSE Append(links, [language |-> IF rd THEN hx_language_from_code(r.data.code)
                                       ELSE HX_LANGUAGE_UNKNOWN,
                          cuuid |-> r.data.cuuid]),
    i + 1, n, fill)
WavResData_links(st, links, i, n, fill) ==
  IF i > n THEN [s |-> st, links |-> links]
  ELSE WavResData_link(links, i, n, fill, st.mode = STREAM_MODE_READ,
         stream_rw_fields(st,
           IF i <= Len(links)
             THEN [code |-> hx_language_to_code(links[i].language), cuuid |-> links[i].cuuid]
             ELSE [code |-> hx_language_to_code(HX_LANGUAGE_UNKNOWN),
                   cuuid |-> UninitCuuid(fill)],
           <<F("code", "32"), F("cuuid", "cuuid")>>))

WavResData_return(c, entry, data, l) ==
  [c |-> WithStream(c, l.s), ret |-> 0,
   entry |-> [entry EXCEPT !.p_data = [data EXCEPT !.links = l.links]]]

\* after the default CUUID and, with HX_WAVRES_OBJ_FLAG_MULTIPLE, the number
\* of links have gone through the stream
WavResData_counted(c, entry, multiple, r) ==
  WavResData_return(c, entry, r.data,
    WavResData_links(r.s, IF multiple /\ IsRead(c) THEN <<>> ELSE r.data.links, 1,
                     ToNat(r.data.num_links), c.fill))

\* after WavResObj has returned o
WavResData_obj(c, entry, data, o) ==
  WavResData_counted(c, entry, Bit(o.data.flags[1], 1),
    stream_rw_fields(o.c.hx.stream,
      [data EXCEPT !.res_data = o.data,
                   !.num_links = IF IsRead(c) THEN Word0 ELSE @],
      <<F("default_cuuid", "cuuid")>>
        \o (IF Bit(o.data.flags[1], 1) THEN <<F("num_links", "32")>> ELSE <<>>)))

WavResData_data(c, entry, data) == WavResData_obj(c, entry, data, WavResObj(c, data.res_data))

WavResData(c, entry) ==
  WavResData_data(c, entry, EntryData(c, entry, Malloc_WavResData(c.fill)))

Malloc_SwitchResData(fill) ==
  [flag |-> UninitWord(fill), unknown |-> UninitWord(fill), unknown2 |-> UninitWord(fill),
   start_index |-> UninitWord(fill), num_links |-> UninitWord(fill), links |-> <<>>]

\* the loops over the links of SwitchResData (a word and a CUUID each) and of
\* RandomResData (a float and a CUUID each): links i .. n
RECURSIVE WordCuuid_links(_, _, _, _, _)
WordCuuid_link(links, i, n, fill, r) ==
  WordCuuid_links(r.s,
    IF i <= Len(links) THEN [links EXCEPT ![i] = r.data] ELSE Append(links, r.data),
    i + 1, n, fill)
WordCuuid_links(st, links, i, n, fill) ==
  IF i > n THEN [s |-> st, links |-> links]
  ELSE WordCuuid_link(links, i, n, fill,
         stream_rw_fields(st,
           IF i <= Len(links) THEN links[i]
           ELSE [w |-> UninitWord(fill), cuuid |-> UninitCuuid(fill)],
           <<F("w", "32"), F("cuuid", "cuuid")>>))

\* the links of the struct after its loop has returned l
Links_return(c, entry, data, l) ==
  [c |-> WithStream(c, l.s), ret |-> 0,
   entry |-> [entry EXCEPT !.p_data = [data EXCEPT !.links = l.links]]]

\* the loop, after the fields up to num_links have gone through the stream
Links_counted(c, entry, r) ==
  Links_return(c, entry, r.data,
    WordCuuid_links(r.s, IF IsRead(c) THEN <<>> ELSE r.data.links, 1,
                    ToNat(r.data.num_links), c.fill))

SwitchResData_fields ==
  <<F("flag", "32"), F("unknown", "32"), F("unknown2", "32"), F("start_index", "32"),
    F("num_links", "32")>>

SwitchResData(c, entry) ==
  Links_counted(c, entry,
    stream_rw_fields(c.hx.stream, EntryData(c, entry, Malloc_SwitchResData(c.fill)),
                     SwitchResData_fields))

Malloc_RandomResData(fill) ==
  [flags |-> UninitWord(fill), offset |-> UninitWord(fill),
   throw_probability |-> UninitWord(fill), num_links |-> UninitWord(fill), links |-> <<>>]

RandomResData_fields ==
  <<F("flags", "32"), F("offset", "float"), F("throw_probability", "float"),
    F("num_links", "32")>>

RandomResData(c, entry) ==
  Links_counted(c, entry,
    stream_rw_fields(c.hx.stream, EntryData(c, entry, Malloc_RandomResData(c.fill)),
                     RandomResData_fields))

(***************************************************************************)
(* waveformat.h, waveformat.c                                              *)
(***************************************************************************)
WAVE_RIFF_CHUNK_ID == <<70, 70, 73, 82>>        \* 0x46464952
WAVE_WAVE_CHUNK_ID == <<69, 86, 65, 87>>        \* 0x45564157
WAVE_FORMAT_CHUNK_ID == <<32, 116, 109, 102>>   \* 0x20746D66
WAVE_DATA_CHUNK_ID == <<97, 116, 97, 100>>      \* 0x61746164
WAVE_DATX_CHUNK_ID == <<120, 116, 97, 100>>     \* 0x78746164
SizeofWaveformatHeader == 44

Malloc_waveformat_header(fill) ==
  [riff_id |-> UninitWord(fill), riff_length |-> UninitWord(fill),
   wave_id |-> UninitWord(fill), format_id |-> UninitWord(fill),
   chunk_size |-> UninitWord(fill), format |-> <<fill, fill>>,
   num_channels |-> <<fill, fill>>, sample_rate |-> UninitWord(fill),
   bytes_per_second |-> UninitWord(fill), block_alignment |-> <<fill, fill>>,
   bits_per_sample |-> <<fill, fill>>, subchunk2_id |-> UninitWord(fill),
   subchunk2_size |-> UninitWord(fill)]

waveformat_header_fields ==
  <<F("riff_id", "32"), F("riff_length", "32"), F("wave_id", "32"), F("format_id", "32"),
    F("chunk_size", "32"), F("format", "16"), F("num_channels", "16"),
    F("sample_rate", "32"), F("bytes_per_second", "32"), F("block_alignment", "16"),
    F("bits_per_sample", "16"), F("subchunk2_id", "32"), F("subchunk2_size", "32")>>

waveformat_header_return(r) ==
  [s |-> r.s, header |-> r.data,
   ok |-> r.data.riff_id = WAVE_RIFF_CHUNK_ID /\ r.data.wave_id = WAVE_WAVE_CHUNK_ID
            /\ r.data.format_id = WAVE_FORMAT_CHUNK_ID]

waveformat_header_rw(st, header) ==
  waveformat_header_return(stream_rw_fields(st, header, waveformat_header_fields))

(***************************************************************************)
(* WaveFileIdObj                                                           *)
(***************************************************************************)
Malloc_WaveFileIdObj(fill) ==
  [id_obj |-> [id |-> UninitWord(fill), unknown |-> UninitWord(fill),
               flags |-> UninitWord(fill), unknown2 |-> UninitWord(fill)],
   name |-> UninitStr(fill), ext_stream_filename |-> UninitStr(fill),
   ext_stream_size |-> UninitWord(fill), ext_stream_offset |-> UninitWord(fill),
   audio_stream |-> NULL, _wave_header |-> NULL, _extra_wave_data |-> NULL,
   _extra_wave_data_length |-> UninitWord(fill)]

Malloc_AudioStream(fill) ==
  [info |-> [num_channels |-> fill, endianness |-> fill,
             sample_rate |-> UninitWord(fill), num_samples |-> UninitWord(fill),
             fmt |-> fill, wavefile_cuuid |-> UninitCuuid(fill)],
   size |-> UninitWord(fill), data |-> NULL]

\* a buffer holding the string old after n bytes were copied to its start
ReadInto(old, got, fill) ==
  IF Len(got) > Len(old) THEN Unterminated(got, fill)
  ELSE CStr(got \o Drop(old, Len(got)))

\* other than for HXG the flags go through the stream as one byte (tmp_flags)
IdObjPtrRW_fields(version) ==
  <<F("id", "32"), F("unknown", "float")>>
    \o (IF version = HX_VERSION_HXG THEN <<F("flags", "32"), F("unknown2", "32")>>
        ELSE <<F("flags", "8")>>)

IdObjPtrRW_return(c, r) ==
  [c |-> WithStream(c, r.s),
   data |-> IF c.hx.version = HX_VERSION_HXG THEN r.data
            ELSE [r.data EXCEPT !.flags = <<0, 0, 0, @[1]>>]]

IdObjPtrRW(c, data) ==
  IdObjPtrRW_return(c,
    stream_rw_fields(c.hx.stream,
                     IF c.hx.version = HX_VERSION_HXG THEN data
                     ELSE [data EXCEPT !.flags = <<@[4]>>],
                     IdObjPtrRW_fields(c.hx.version)))

\* unsigned subtraction: a result below zero wraps to a length no buffer has
WrapLen(x) == IF x < 0 THEN 1073741823 ELSE x

\* data->id_obj.flags & HX_ID_OBJ_PTR_FLAG_EXTERNAL
External(data) == Bit(data.id_obj.flags[4], 0)

\* _extra_wave_data_length as a read computes it from the wave header
ExtraLength(data) ==
  LET wh == data._wave_header
      x0 == ToNat(wh.riff_length) + 8 - ToNat(wh.subchunk2_size) - SizeofWaveformatHeader
      x1 == WrapLen(IF External(data) THEN x0 + 4 ELSE x0)
  IN IF x1 > 0 /\ ~External(data) THEN x1 + 1 ELSE x1

\* the audio stream of the entry once the wave header is there
WaveFileIdObj_audio(c, entry, data, wh) ==
  [(IF IsRead(c)
      THEN [Malloc_AudioStream(c.fill) EXCEPT
              !.info.fmt = wh.format[1] * 256 + wh.format[2],
              !.info.num_channels = wh.num_channels[2],
              !.info.endianness = c.hx.stream.endianness,
              !.info.sample_rate = wh.sample_rate,
              !.size = wh.subchunk2_size]
      ELSE data.audio_stream)
   EXCEPT !.info.wavefile_cuuid = entry.i_cuuid]

\* the asserts on the data chunk of the wave header
WaveFileIdObj_asserted(data) ==
  IF External(data)
    THEN data._wave_header.subchunk2_id = WAVE_DATX_CHUNK_ID
           /\ data._wave_header.subchunk2_size = <<0, 0, 0, 8>>
    ELSE data._wave_header.subchunk2_id = WAVE_DATA_CHUNK_ID

\* The end of the routine. e is the stream after the stream data, with the
\* size and offset of an external stream and the bytes of an internal one;
\* t is the stream after what follows the stream data, with the struct.
WaveFileIdObj_return(c, entry, data, e, t) ==
  LET rd == IsRead(c)
      external == External(data)
      fn1 == data.ext_stream_filename
      fn2 == IF external /\ rd /\ HasPrefix(fn1, Str_DotBackslash) THEN Drop(fn1, 2) ELSE fn1
      size == e.data.ext_stream_size
      offset == e.data.ext_stream_offset
      ext == IF external /\ rd THEN read_cb(c.disk, fn2, ToNat(offset), ToNat(size)) ELSE NULL
      audio1 == data.audio_stream
      audio2 == IF external
                  THEN IF rd THEN [audio1 EXCEPT !.size = size,
                                                 !.data = IF ext.null THEN NULL
                                                          ELSE Buf(ext.data)]
                       ELSE audio1
                  ELSE [audio1 EXCEPT !.data = Buf(e.data.pcm)]
      disk1 == IF external /\ ~rd
                 THEN write_cb(c.disk, fn2, IF audio1.data.null THEN <<>> ELSE audio1.data.data,
                               ToNat(offset), ToNat(size))
                 ELSE c.disk
      c1 == [c EXCEPT !.disk = disk1, !.abort = @ \/ ~WaveFileIdObj_asserted(data)]
      full == [data EXCEPT !.ext_stream_filename = fn2, !.ext_stream_size = size,
                           !.audio_stream = audio2]
  IN IF external /\ rd /\ ext.null
       THEN [c |-> hx_error(WithStream(c1, e.s), "failed to read from external stream"),
             ret |-> -1,
             entry |-> [entry EXCEPT !.p_data =
                          [full EXCEPT !._extra_wave_data = NULL,
                                       !._extra_wave_data_length = UninitWord(c.fill),
                                       !.ext_stream_offset = offset]]]
     ELSE [c |-> WithStream(c1, t.s), ret |-> 0,
           entry |-> [entry EXCEPT !.p_data =
                        [full EXCEPT !.ext_stream_offset = t.data.ext_stream_offset,
                                     !._extra_wave_data = t.data._extra_wave_data,
                                     !._extra_wave_data_length =
                                        t.data._extra_wave_data_length]]]

\* What follows the stream data. A read copies _extra_wave_data_length bytes
\* from the buffer of the stream and advances; a write puts the extra data
\* back and, for HX2, the offset of the external stream after it.
WaveFileIdObj_extra(c, data, e) ==
  IF IsRead(c)
    THEN LET x2 == ExtraLength(data)
             left == IF e.s.size > e.s.pos THEN e.s.size - e.s.pos ELSE 0
         IN [s |-> IF x2 > 0 THEN [stream_advance(e.s, x2) EXCEPT !.over = @ \/ x2 > left]
                   ELSE e.s,
             data |-> [ext_stream_offset |-> e.data.ext_stream_offset,
                       _extra_wave_data |->
                          IF x2 > 0 THEN Buf(BufGet(e.s.buf, e.s.pos,
                                                    IF x2 > left THEN left ELSE x2))
                          ELSE NULL,
                       _extra_wave_data_length |-> FromNat(x2)]]
    ELSE stream_rw_fields(e.s,
           [ext_stream_offset |-> e.data.ext_stream_offset,
            _extra_wave_data |-> data._extra_wave_data,
            _extra_wave_data_length |-> data._extra_wave_data_length,
            bytes |-> IF data._extra_wave_data # NULL THEN data._extra_wave_data.data
                      ELSE <<>>],
           (IF data._extra_wave_data # NULL
              THEN <<Raw("bytes", ToNat(data._extra_wave_data_length))>> ELSE <<>>)
             \o (IF c.hx.version = HX_VERSION_HX2
                   THEN <<F("ext_stream_offset", "32")>> ELSE <<>>))

WaveFileIdObj_data(c, entry, data, e) ==
  WaveFileIdObj_return(c, entry, data, e, WaveFileIdObj_extra(c, data, e))

\* The stream data, after waveformat_header_rw has returned w: the size and
\* the offset of an external stream, the bytes of an internal one.
WaveFileIdObj_header(c, entry, data, w) ==
  IF ~w.ok
    THEN [c |-> hx_error(WithStream(c, w.s), "failed to read wave format header"),
          ret |-> -1,
          entry |-> [entry EXCEPT !.p_data = [data EXCEPT !._wave_header = w.header]]]
  ELSE
    WaveFileIdObj_data(c, entry,
      [data EXCEPT !._wave_header = w.header,
                   !.audio_stream = WaveFileIdObj_audio(c, entry, data, w.header)],
      stream_rw_fields(w.s,
        [ext_stream_size |-> data.ext_stream_size,
         ext_stream_offset |-> data.ext_stream_offset,
         pcm |-> IF IsRead(c) \/ External(data) THEN <<>>
                 ELSE WaveFileIdObj_audio(c, entry, data, w.header).data.data],
        IF External(data)
          THEN <<F("ext_stream_size", "32"), F("ext_stream_offset", "32")>>
          ELSE <<Raw("pcm", ToNat(w.header.subchunk2_size))>>))

\* The wave header, after the name of an external stream has gone through
\* the stream: r.data is the struct with the bytes of the name, old the name
\* the buffer held before.
WaveFileIdObj_name(c, entry, old, r) ==
  WaveFileIdObj_header(c, entry,
    [r.data EXCEPT !.ext_stream_filename =
       IF External(r.data) /\ IsRead(c) THEN ReadInto(old, @, c.fill) ELSE old],
    waveformat_header_rw(r.s, IF IsRead(c) THEN Malloc_waveformat_header(c.fill)
                              ELSE r.data._wave_header))

\* The name of an external stream (for HX2 with ".\" put before it), or the
\* size and offset of an internal one, after IdObjPtrRW has returned o.
WaveFileIdObj_id(c, entry, data, o) ==
  LET d0 == [data EXCEPT !.id_obj = o.data]
      d1 == IF External(d0)
              THEN [d0 EXCEPT !.ext_stream_filename =
                      IF c.hx.version = HX_VERSION_HX2 THEN Str_DotBackslash \o @ ELSE @]
              ELSE [d0 EXCEPT !.ext_stream_offset = Word0, !.ext_stream_size = Word0]
  IN WaveFileIdObj_name(c, entry, d1.ext_stream_filename,
       stream_rw_fields(o.c.hx.stream, d1,
                        IF External(d0) THEN <<F("ext_stream_filename", "str")>> ELSE <<>>))

WaveFileIdObj_alloc(c, entry, data) ==
  WaveFileIdObj_id(c, entry, data, IdObjPtrRW(c, data.id_obj))

WaveFileIdObj(c, entry) ==
  WaveFileIdObj_alloc(c, entry, EntryData(c, entry, Malloc_WaveFileIdObj(c.fill)))

(***************************************************************************)
(* ProgramResData                                                          *)
(***************************************************************************)
\* the scan of the copied entry for embedded links: bytes i .. n - 1.  over
\* records that a byte behind the n copied ones was inspected.
RECURSIVE ProgramResData_scan(_, _, _, _, _, _)
\* the CUUID read at p, with its halves swapped back for HX2
ProgramResData_cuuid(version, r) ==
  IF version = HX_VERSION_HX2
    THEN HX_BYTESWAP32(SubSeq(r.v, 1, 4)) \o HX_BYTESWAP32(SubSeq(r.v, 5, 8))
    ELSE r.v
ProgramResData_link(blob, i, n, version, endianness, acc, p, cuuid) ==
  ProgramResData_scan(blob, i + 1, n, version, endianness,
    [links |-> IF SubSeq(cuuid, 1, 4) = <<0, 0, 0, 3>> THEN Append(acc.links, cuuid)
               ELSE acc.links,
     over |-> acc.over \/ p + 8 > n])
ProgramResData_at(blob, i, n, version, endianness, acc, p) ==
  ProgramResData_link(blob, i, n, version, endianness, acc, p,
    ProgramResData_cuuid(version,
      stream_rwcuuid(stream_create(BufGet(blob, p, 8), 8, STREAM_MODE_READ, endianness),
                     HX_INVALID_CUUID)))
ProgramResData_scan(blob, i, n, version, endianness, acc) ==
  IF i >= n THEN acc
  ELSE IF blob[i + 1] # 69 THEN ProgramResData_scan(blob, i + 1, n, version, endianness, acc)
  ELSE ProgramResData_at(blob, i, n, version, endianness, acc,
                         IF version = HX_VERSION_HXC THEN i + 2 ELSE i + 1)

ProgramResData_return(c, entry, tmp, r, scan) ==
  [c |-> WithStream(c, r.s), ret |-> 0,
   entry |-> [entry EXCEPT
                !._tmp_file_size = tmp,
                !.p_data = IF IsRead(c)
                             THEN [data |-> r.data, num_links |-> Len(scan.links),
                                   links |-> scan.links, scan_over |-> scan.over]
                             ELSE entry.p_data]]

\* the scan, after the entry has been copied
ProgramResData_copied(c, entry, tmp, r) ==
  ProgramResData_return(c, entry, tmp, r,
    ProgramResData_scan(r.data, 0, ToNat(entry._file_size), c.hx.version,
                        c.hx.stream.endianness, [links |-> <<>>, over |-> FALSE]))

\* the copy of the entire entry, its _tmp_file_size being tmp
ProgramResData_sized(c, entry, tmp) ==
  ProgramResData_copied(c, entry, tmp,
    stream_rw(c.hx.stream, IF IsRead(c) THEN <<>> ELSE entry.p_data.data,
              IF IsRead(c) THEN ToNat(entry._file_size) ELSE ToNat(tmp)))

ProgramResData(c, entry) ==
  ProgramResData_sized(c, entry,
    IF IsRead(c)
      THEN FromNat(WrapLen(ToNat(entry._file_size)
                           - (4 + Len(hx_class_name(entry.i_class, c.hx.version)) + 8)))
      ELSE entry._tmp_file_size)

(***************************************************************************)
(* Entries                                                                 *)
(***************************************************************************)
\* hx_entry_init leaves e->links as the memory was: links_set tells whether the
\* program has assigned the pointer.
hx_entry_init ==
  [i_cuuid |-> HX_INVALID_CUUID, i_class |-> HX_CLASS_INVALID, num_links |-> Word0,
   links |-> <<>>, links_set |-> FALSE, num_languages |-> Word0, language_links |-> <<>>,
   _file_offset |-> Word0, _file_size |-> Word0, _tmp_file_size |-> Word0, p_data |-> NULL]

\* hx_class_table[entry->i_class].rw(hx, entry)
ClassRW(c, entry) ==
  CASE entry.i_class = HX_CLASS_EVENT_RESOURCE_DATA -> EventResData(c, entry)
    [] entry.i_class = HX_CLASS_WAVE_RESOURCE_DATA -> WavResData(c, entry)
    [] entry.i_class = HX_CLASS_SWITCH_RESOURCE_DATA -> SwitchResData(c, entry)
    [] entry.i_class = HX_CLASS_RANDOM_RESOURCE_DATA -> RandomResData(c, entry)
    [] entry.i_class = HX_CLASS_PROGRAM_RESOURCE_DATA -> ProgramResData(c, entry)
    [] entry.i_class = HX_CLASS_WAVE_FILE_ID_OBJECT -> WaveFileIdObj(c, entry)

\* a name read into char[HX_STRING_MAX_LENGTH]: the bytes that fit
HX_STRING_MAX_LENGTH == 256
Fit(n) == IF n > HX_STRING_MAX_LENGTH THEN HX_STRING_MAX_LENGTH ELSE n
\* a string copied into char[HX_STRING_MAX_LENGTH] with its terminator
Fit255(str) == SubSeq(str, 1, Fit(Len(str) + 1) - 1)

\* stream_rw32 on the length of a class name, then stream_rw of that many
\* bytes into char classname[HX_STRING_MAX_LENGTH]; room is the longest name
\* the routine has room for.  r1 is what stream_rw32 has returned, r2 what
\* stream_rw has.
classname_chars(room, r1, r2) ==
  [s |-> [stream_advance(r2.s, ToNat(r1.v) - Fit(ToNat(r1.v))) EXCEPT
            !.over = @ \/ ToNat(r1.v) > room],
   data |-> r2.data]
classname_length(classname, room, r1) ==
  classname_chars(room, r1, stream_rw(r1.s, classname, Fit(ToNat(r1.v))))
classname_rw(s, classname, room) ==
  classname_length(classname, room, stream_rw32(s, FromNat(Len(classname))))

\* after the routine of the class has returned body
hx_entry_rw_return(p, body) ==
  IF body.ret # 0
    THEN [c |-> hx_error(body.c, "invalid class"), ret |-> -1, entry |-> body.entry]
    ELSE [c |-> body.c, ret |-> body.c.hx.stream.pos - p, entry |-> body.entry]

\* after stream_rwcuuid has returned r3
hx_entry_rw_cuuid(c, entry, p, r3) ==
  IF r3.v # entry.i_cuuid
    THEN [c |-> hx_error(WithStream(c, r3.s), "header cuuid does not match index cuuid"),
          ret |-> -1, entry |-> entry]
  ELSE IF entry.i_class # HX_CLASS_INVALID
    THEN hx_entry_rw_return(p, ClassRW(WithStream(c, r3.s), entry))
  ELSE [c |-> WithStream(c, r3.s), ret |-> r3.s.pos - p, entry |-> entry]

\* after the class name has gone through the stream: n.data holds its bytes
hx_entry_rw_name(c, entry, p, n) ==
  IF IsRead(c) /\ hx_class_from_string(CStr(n.data)) # entry.i_class
    THEN [c |-> hx_error(WithStream(c, n.s),
                         "header class name does not match index class name"),
          ret |-> -1, entry |-> entry]
    ELSE hx_entry_rw_cuuid(c, entry, p, stream_rwcuuid(n.s, entry.i_cuuid))

hx_entry_rw(c, entry) ==
  hx_entry_rw_name(c, entry, c.hx.stream.pos,
    classname_rw(c.hx.stream,
                 IF IsRead(c) THEN <<>> ELSE hx_class_name(entry.i_class, c.hx.version),
                 HX_STRING_MAX_LENGTH - 1))

(***************************************************************************)
(* HX2: the index and the entries, read or written.                        *)
(***************************************************************************)
INDX == <<88, 68, 78, 73>>    \* 0x58444E49

\* entry->links + i for i = i .. n - 1 of the index record
RECURSIVE Index_links(_, _, _, _, _)
Index_link(links, i, n, fill, r) ==
  Then(r, Index_links(r.s,
                      IF i <= Len(links) THEN [links EXCEPT ![i] = r.v]
                      ELSE Append(links, r.v),
                      i + 1, n, fill))
Index_links(st, links, i, n, fill) ==
  IF i > n THEN [s |-> st, links |-> links]
  ELSE Index_link(links, i, n, fill,
                  stream_rwcuuid(st, IF i <= Len(links) THEN links[i]
                                     ELSE UninitCuuid(fill)))

\* entry->language_links[i]: what malloc returned when the record is read
LanguageLinkAt(links, i, fill) ==
  IF i <= Len(links) THEN links[i]
  ELSE [language |-> HX_LANGUAGE_UNKNOWN, unknown |-> UninitWord(fill),
        cuuid |-> UninitCuuid(fill)]

RECURSIVE Index_language_links(_, _, _, _, _)
Index_language_link(links, i, n, fill, r) ==
  Then(r, Index_language_links(r.s,
            IF i <= Len(links)
              THEN [links EXCEPT ![i] =
                      [language |-> IF r.s.mode = STREAM_MODE_READ
                                      THEN hx_language_from_code(r.data.code)
                                      ELSE @.language,
                       unknown |-> r.data.unknown, cuuid |-> r.data.cuuid]]
              ELSE Append(links,
                          [language |-> IF r.s.mode = STREAM_MODE_READ
                                          THEN hx_language_from_code(r.data.code)
                                          ELSE HX_LANGUAGE_UNKNOWN,
                           unknown |-> r.data.unknown, cuuid |-> r.data.cuuid]),
            i + 1, n, fill))
Index_language_links(st, links, i, n, fill) ==
  IF i > n THEN [s |-> st, links |-> links]
  ELSE Index_language_link(links, i, n, fill,
         stream_rw_fields(st,
           [code |-> hx_language_to_code(LanguageLinkAt(links, i, fill).language),
            unknown |-> LanguageLinkAt(links, i, fill).unknown,
            cuuid |-> LanguageLinkAt(links, i, fill).cuuid],
           <<F("code", "32"), F("unknown", "32"), F("cuuid", "cuuid")>>))

\* the fields of an index record behind the class name
HX2_record_fields ==
  <<F("i_cuuid", "cuuid"), F("_file_offset", "32"), F("_file_size", "32"),
    F("zero", "32"), F("num_links", "32")>>
HX2_record_data(e0) ==
  [i_cuuid |-> e0.i_cuuid, _file_offset |-> e0._file_offset, _file_size |-> e0._file_size,
   zero |-> Word0, num_links |-> e0.num_links]
HX2_record_entry(e0, d) ==
  [e0 EXCEPT !.i_cuuid = d.i_cuuid, !._file_offset = d._file_offset,
             !._file_size = d._file_size, !.num_links = d.num_links]

\* index type 2, after the links (l), num_languages (r8) and the language
\* links (ll) have gone through the stream
HX2_record_return(rd, e1, zero, l, r8, ll) ==
  [s |-> ll.s, asserted |-> zero = Word0,
   wild |-> ~rd /\ ~e1.links_set /\ ToNat(e1.num_links) > 0,
   entry |-> [e1 EXCEPT !.links = l.links, !.links_set = rd \/ e1.links_set,
                        !.num_languages = r8.v, !.language_links = ll.links]]
HX2_record_languages(rd, e1, zero, fill, l, r8) ==
  HX2_record_return(rd, e1, zero, l, r8,
    Index_language_links(r8.s, IF rd THEN <<>> ELSE e1.language_links, 1,
                         ToNat(r8.v), fill))
HX2_record_links(rd, e1, zero, fill, l) ==
  HX2_record_languages(rd, e1, zero, fill, l, stream_rw32(l.s, e1.num_languages))

\* after the fixed fields of the record have gone through the stream (r)
HX2_record_index(rd, e0, index_type, fill, r) ==
  IF index_type = <<0, 0, 0, 2>>
    THEN HX2_record_links(rd, HX2_record_entry(e0, r.data), r.data.zero, fill,
           Index_links(r.s, IF rd THEN <<>> ELSE e0.links, 1,
                       ToNat(r.data.num_links), fill))
    ELSE [s |-> r.s, asserted |-> r.data.zero = Word0, wild |-> FALSE,
          entry |-> HX2_record_entry(e0, r.data)]
HX2_record_init(rd, index_type, fill, s, e0) ==
  HX2_record_index(rd, e0, index_type, fill,
                   stream_rw_fields(s, HX2_record_data(e0), HX2_record_fields))
\* after the class name has gone through the stream: hx_entry_init and the
\* class of the name, compared on the bytes the record holds
HX2_record_name(rd, entry, index_type, fill, n) ==
  HX2_record_init(rd, index_type, fill, n.s,
    IF rd THEN [hx_entry_init EXCEPT
                  !.i_class = hx_class_from_string(CStr(n.data)),
                  !.links = entry.links, !.links_set = entry.links_set]
    ELSE entry)

\* the body of the while loop up to the seek: the index record of one entry
HX2_record(ix, entry, version, index_type, fill) ==
  HX2_record_name(ix.mode = STREAM_MODE_READ, entry, index_type, fill,
    classname_rw(ix,
                 IF ix.mode = STREAM_MODE_READ THEN <<>>
                 ELSE hx_class_name(entry.i_class, version),
                 HX_STRING_MAX_LENGTH))

\* the while loop: entries k .. Len(entries), their index records on ix
RECURSIVE HX2_entries(_, _, _, _)
\* after hx_entry_rw has returned r for entry k. bodies is no variable of the
\* program: it lists, for the calls of hx_entry_rw in order, the position the
\* stream was at when it was called and the bytes it moved the stream over.
HX2_entry_done(rd, k, index_type, rec, r) ==
  Then(r, HX2_entries([(IF r.ret <= 0
                          THEN hx_error(r.c, IF rd THEN "failed to read entry"
                                             ELSE "failed to write entry")
                          ELSE r.c)
                         EXCEPT !.hx.entries[k] = r.entry,
                                !.bodies[Len(r.c.bodies)] =
                                   [at |-> @.at, moved |-> r.c.hx.stream.pos - @.at]],
                      rec.s, k + 1, index_type))
\* after the index record of entry k has gone through ix (rec)
HX2_entry_seek(c, k, index_type, rec) ==
  HX2_entry_done(IsRead(c), k, index_type, rec,
    hx_entry_rw([WithStream(c, IF IsRead(c)
                                 THEN stream_seek(c.hx.stream,
                                                  ToNat(rec.entry._file_offset))
                                 ELSE c.hx.stream)
                   EXCEPT !.abort = @ \/ ~rec.asserted, !.wild = @ \/ rec.wild,
                          !.bodies = Append(@, [at |-> IF IsRead(c)
                                                         THEN ToNat(rec.entry._file_offset)
                                                         ELSE c.hx.stream.pos,
                                                moved |-> 0])],
                rec.entry))
HX2_entries(c, ix, k, index_type) ==
  IF k > Len(c.hx.entries) THEN [c |-> c, ix |-> ix]
  ELSE HX2_entry_seek(c, k, index_type,
         HX2_record(ix, c.hx.entries[k], c.hx.version, index_type, c.fill))

Repeat(x, n) == <<>> \o [i \in 1 .. n |-> x]

\* the checks of the index header with the index type tested first
HX2_header_typefirst(index_code, index_type, num_entries) ==
  IF index_type # <<0, 0, 0, 1>> /\ index_type # <<0, 0, 0, 2>> THEN "invalid index type"
  ELSE IF index_code # INDX THEN "invalid index header"
  ELSE IF num_entries = Word0 THEN "file contains no entries"
  ELSE ""

\* the three checks of the index header, in the order of the code: the
\* message of the first that fails, "" when the header passes
HX2_header(index_code, index_type, num_entries) ==
  IF index_code # INDX THEN "invalid index header"
  ELSE IF index_type # <<0, 0, 0, 1>> /\ index_type # <<0, 0, 0, 2>> THEN "invalid index type"
  ELSE IF num_entries = Word0 THEN "file contains no entries"
  ELSE ""

\* index_code, index_type and num_entries, in the order they go through the
\* index stream
HX2_header_fields == <<F("index_code", "32"), F("index_type", "32"), F("num_entries", "32")>>

\* read and seek to the index offset, after stream_rw32 has returned first
HX2_index_seek(first) == stream_seek(first.s, ToNat(first.v))
HX2_index_stream(c) ==
  IF IsRead(c) THEN HX2_index_seek(stream_rw32(c.hx.stream, Word0))
  ELSE stream_alloc(Len(c.hx.entries) * 255, STREAM_MODE_WRITE, c.hx.stream.endianness)

\* The end of a written file.  sz is what sprintf returned, rounded up.
HX2_info_size(pos) == 32 + ((16 - ((pos + 32) % 16)) % 16)
HX2_info(version, copied) ==
  [copied EXCEPT
     !.buf = BufPut(IF version = HX_VERSION_HXG \/ version = HX_VERSION_HX2
                      THEN BufPut(copied.buf, copied.pos, Zeros(32)) ELSE copied.buf,
                    copied.pos, Str_WrittenBy \o <<0>>),
     !.size = copied.pos + HX2_info_size(copied.pos)]
\* the offset word patched with the position behind the copied index
HX2_patched_end(index_offset, pos, info) ==
  stream_rw32(stream_seek(stream_advance(info, HX2_info_size(pos)), 0),
              FromNat(pos)).s
HX2_patched(index_offset, pos, info) ==
  stream_rw32(stream_seek(stream_advance(info, HX2_info_size(pos)), 0),
              FromNat(index_offset)).s
\* after the index has been copied to the end of the file (copied)
HX2_copied(version, index_offset, copied) ==
  HX2_patched(index_offset, copied.pos, HX2_info(version, copied))
HX2_write_end(done) ==
  HX2_copied(done.c.hx.version, done.c.hx.stream.pos,
             stream_rw(done.c.hx.stream, done.ix.buf, done.ix.pos).s)

\* after the while loop has returned done
HX2_return(rd, done) ==
  IF rd THEN [c |-> [done.c EXCEPT !.hx.stream.over = @ \/ done.ix.over], ret |-> 0]
  ELSE [c |-> WithStream(done.c, HX2_write_end(done)), ret |-> 0]

\* after the index header has gone through the index stream (h); n0 is
\* hx->num_entries at the call and c0 the context with the offset word reserved
HX2_index(c0, rd, n0, h) ==
  IF HX2_header(h.data.index_code, h.data.index_type, h.data.num_entries) # ""
    THEN [c |-> hx_error(IF rd THEN [c0 EXCEPT !.hx.stream.over = @ \/ h.s.over] ELSE c0,
                         HX2_header(h.data.index_code, h.data.index_type,
                                    h.data.num_entries)),
          ret |-> -1]
    ELSE HX2_return(rd,
           HX2_entries(IF rd
                         THEN [c0 EXCEPT !.hx.entries =
                                 @ \o Repeat([hx_entry_init EXCEPT
                                                !.i_cuuid = UninitCuuid(c0.fill)],
                                             ToNat(h.data.num_entries))]
                         ELSE c0,
                       h.s, IF rd THEN n0 + 1 ELSE 1, h.data.index_type))

HX2(c) ==
  HX2_index(IF IsRead(c) THEN c ELSE WithStream(c, stream_advance(c.hx.stream, 4)),
            IsRead(c), Len(c.hx.entries),
            stream_rw_fields(HX2_index_stream(c),
                             [index_code |-> INDX, index_type |-> <<0, 0, 0, 2>>,
                              num_entries |-> FromNat(Len(c.hx.entries))],
                             HX2_header_fields))

(***************************************************************************)
(* The reader of the earlier revision (hx_read), which the unified HX2()   *)
(* replaced: its pass over the index.                                      *)
(***************************************************************************)
\* The while loop of hx_read over n index records. A record whose class name
\* is unknown is reported on stderr and left by `continue` right after the
\* name; its other fields stay what realloc returned. hx_entry_rw runs
\* between a seek to the body and a seek back, so it leaves the position.
RECURSIVE hx_read_records(_, _, _, _)
\* the language links of a record are skipped: r9 is their number
hx_read_languages(r9) == stream_advance(r9.s, 16 * ToNat(r9.v))
\* after the fixed fields of the record have been read (r); s2 is the stream
\* behind the class name
hx_read_record_fields(n, index_type, fill, class, s2, r) ==
  IF class = HX_CLASS_INVALID
    THEN <<[i_class |-> class, i_cuuid |-> UninitCuuid(fill),
            _file_offset |-> UninitWord(fill), _file_size |-> UninitWord(fill),
            warned |-> TRUE]>>
           \o hx_read_records(s2, n - 1, index_type, fill)
    ELSE <<[i_class |-> class, i_cuuid |-> r.data.i_cuuid,
            _file_offset |-> r.data._file_offset, _file_size |-> r.data._file_size,
            warned |-> FALSE]>>
           \o hx_read_records(
                IF index_type = <<0, 0, 0, 2>>
                  THEN hx_read_languages(
                         stream_rw32(stream_advance(r.s, 8 * ToNat(r.data.num_links)),
                                     Word0))
                  ELSE r.s,
                n - 1, index_type, fill)
hx_read_record_name(n, index_type, fill, s2, class) ==
  hx_read_record_fields(n, index_type, fill, class, s2,
    stream_rw_fields(s2,
                     [i_cuuid |-> UninitCuuid(fill), _file_offset |-> Word0,
                      _file_size |-> Word0, zero |-> Word0, num_links |-> Word0],
                     HX2_record_fields))
\* after the length of the class name has been read (r1)
hx_read_record_length(n, index_type, fill, r1) ==
  hx_read_record_name(n, index_type, fill, stream_advance(r1.s, ToNat(r1.v)),
    hx_class_from_string(CStr(BufGet(r1.s.buf, r1.s.pos, Fit(ToNat(r1.v))))))
hx_read_records(st, n, index_type, fill) ==
  IF n = 0 THEN <<>>
  ELSE hx_read_record_length(n, index_type, fill, stream_rw32(st, Word0))

\* hx_read on a stream over the file: the index header, then the records
hx_read_index(fill, h) ==
  IF HX2_header(h.data.index_code, h.data.index_type, h.data.num_entries) # ""
    THEN [ret |-> -1, records |-> <<>>]
    ELSE [ret |-> 1,
          records |-> hx_read_records(h.s, ToNat(h.data.num_entries),
                                      h.data.index_type, fill)]
hx_read(st, fill) ==
  hx_read_index(fill,
    stream_rw_fields(HX2_index_seek(stream_rw32(st, Word0)),
                     [index_code |-> Word0, index_type |-> Word0, num_entries |-> Word0],
                     HX2_header_fields))

(***************************************************************************)
(* The context.                                                            *)
(***************************************************************************)
\* hx_context_alloc: version, entries and num_entries are set, the stream is
\* what the memory held (each of its bytes is fill).
hx_context_alloc(fill) ==
  [null |-> FALSE, version |-> HX_VERSION_INVALID, entries |-> <<>>,
   stream |-> [buf |-> <<>>, size |-> 0, pos |-> 0, mode |-> STREAM_MODE_READ,
               endianness |-> fill, over |-> FALSE]]

\* the loop over hx_version_table: the first version whose name is ext, or
\* HX_VERSION_INVALID when the loop ends without a match
RECURSIVE VersionOfExt(_, _)
VersionOfExt(ext, v) ==
  IF v > HX_VERSION_HX3 THEN HX_VERSION_INVALID
  ELSE IF strcasecmp(ext, hx_version_table[v].name) = 0 THEN v
  ELSE VersionOfExt(ext, v + 1)

\* after HX2 has returned r
hx_context_open_return(r) ==
  IF r.ret # 0 THEN [c |-> r.c, ret |-> -1] ELSE [c |-> r.c, ret |-> 0]

\* after the read callback has returned data; c1 has the version of the name
hx_context_open_read(c1, data) ==
  IF data.null THEN [c |-> hx_error(c1, "failed to read file"), ret |-> -1]
  ELSE IF c1.hx.version = HX_VERSION_INVALID
    THEN [c |-> hx_error(c1, "invalid hx file version"), ret |-> -1]
  ELSE hx_context_open_return(
         HX2(WithStream(c1, stream_create(data.data, data.size, STREAM_MODE_READ,
                                          hx_version_table[c1.hx.version].endianness))))

\* the version of the extension behind the last '.', which is at dot
ExtVersion(name, dot) ==
  IF dot > 0 THEN VersionOfExt(Drop(name, dot), HX_VERSION_HXD) ELSE HX_VERSION_INVALID
hx_context_open_version(c, filename, v) ==
  hx_context_open_read(IF v # HX_VERSION_INVALID THEN [c EXCEPT !.hx.version = v] ELSE c,
                       read_cb(c.disk, filename.data, 0, -1))

\* filename is NULL or Buf(the name)
hx_context_open(c, filename) ==
  IF filename.null THEN [c |-> hx_error(c, "invalid filename"), ret |-> -1]
  ELSE hx_context_open_version(c, filename,
                               ExtVersion(filename.data, strrchr(filename.data, 46)))

\* after HX2 has returned r; ps is the stream the context had
hx_context_write_return(ps, filename, r) ==
  IF r.ret # 0 THEN [c |-> r.c, ret |-> r.ret]
  ELSE [c |-> [WithStream(r.c, ps) EXCEPT
                 !.disk = write_cb(r.c.disk, filename,
                                   BufGet(r.c.hx.stream.buf, 0, r.c.hx.stream.size),
                                   0, r.c.hx.stream.size)],
        ret |-> 0]

\* hx_context_write returns nothing; ret is what HX2 returned inside it
hx_context_write(c, filename, version) ==
  hx_context_write_return(c.hx.stream, filename,
    HX2([c EXCEPT !.hx.stream = stream_alloc(5242879, STREAM_MODE_WRITE,
                                            c.hx.stream.endianness),
                  !.hx.version = version]))

\* a scan that keeps going after a match: the last entry with the CUUID
hx_context_find_entry_last(entries, cuuid, i) ==
  IF \E j \in i .. Len(entries) : entries[j].i_cuuid = cuuid
    THEN CHOOSE j \in i .. Len(entries) :
           /\ entries[j].i_cuuid = cuuid
           /\ \A k \in j + 1 .. Len(entries) : entries[k].i_cuuid # cuuid
    ELSE 0

\* hx_context_find_entry: the index of the entry found, 0 for NULL
RECURSIVE hx_context_find_entry(_, _, _)
hx_context_find_entry(entries, cuuid, i) ==
  IF i > Len(entries) THEN 0
  ELSE IF entries[i].i_cuuid = cuuid THEN i
  ELSE hx_context_find_entry(entries, cuuid, i + 1)

\* PostRead, first loop (on HXG): the WavResData an EventResData links to
\* takes the event's name. A link that finds no entry, or an entry without
\* data, is a null pointer the loop reads through.
RECURSIVE PostRead_events(_, _)
PostRead_events(c, i) ==
  IF i > Len(c.hx.entries) THEN c
  ELSE
    LET e == c.hx.entries[i]
        k == hx_context_find_entry(c.hx.entries, e.p_data.link, 1)
    IN IF e.i_class # HX_CLASS_EVENT_RESOURCE_DATA THEN PostRead_events(c, i + 1)
       ELSE IF e.p_data = NULL \/ k = 0
         THEN PostRead_events([c EXCEPT !.wild = TRUE], i + 1)
       ELSE IF c.hx.entries[k].i_class # HX_CLASS_WAVE_RESOURCE_DATA
         THEN PostRead_events(c, i + 1)
       ELSE IF c.hx.entries[k].p_data = NULL
         THEN PostRead_events([c EXCEPT !.wild = TRUE], i + 1)
       ELSE PostRead_events(
              [c EXCEPT !.hx.entries[k].p_data.res_data.name = Fit255(e.p_data.name)], i + 1)

\* PostRead, second loop, links l .. of the WavResData entry i: the entry a
\* link finds is taken for a WaveFileIdObj and named "<name>_<language>".
RECURSIVE PostRead_links(_, _, _)
PostRead_links(c, i, l) ==
  LET data == c.hx.entries[i].p_data IN
    IF l > Len(data.links) THEN c
    ELSE
      LET k == hx_context_find_entry(c.hx.entries, data.links[l].cuuid, 1)
          buf == Fit255(data.res_data.name \o Str_Underscore
                          \o hx_language_name(data.links[l].language))
      IN IF k = 0 \/ c.hx.entries[k].p_data = NULL
              \/ c.hx.entries[k].i_class # HX_CLASS_WAVE_FILE_ID_OBJECT
           THEN PostRead_links([c EXCEPT !.wild = TRUE], i, l + 1)
           ELSE PostRead_links([c EXCEPT !.hx.entries[k].p_data.name = buf], i, l + 1)

RECURSIVE PostRead_waves(_, _)
PostRead_waves(c, i) ==
  IF i > Len(c.hx.entries) THEN c
  ELSE IF c.hx.entries[i].i_class # HX_CLASS_WAVE_RESOURCE_DATA THEN PostRead_waves(c, i + 1)
  ELSE IF c.hx.entries[i].p_data = NULL THEN PostRead_waves([c EXCEPT !.wild = TRUE], i + 1)
  ELSE PostRead_waves(PostRead_links(c, i, 1), i + 1)

PostRead(c) ==
  PostRead_waves(IF c.hx.version = HX_VERSION_HXG THEN PostRead_events(c, 1) ELSE c, 1)

(***************************************************************************)
(* Container files for the model to read, laid out as HX2 reads them: the  *)
(* index offset, the entries one after the other from byte 4, the index.   *)
(***************************************************************************)
Enc16(e, w) == IF e = HX_BIG_ENDIAN THEN w ELSE Reverse(w)
Enc32(e, w) == IF e = HX_BIG_ENDIAN THEN w ELSE Reverse(w)
EncCuuid(e, cuuid) == Enc32(e, SubSeq(cuuid, 1, 4)) \o Enc32(e, SubSeq(cuuid, 5, 8))
EncStr(e, str) == Enc32(e, FromNat(Len(str))) \o str

RECURSIVE Concat(_)
Concat(seqs) == IF seqs = <<>> THEN <<>> ELSE Head(seqs) \o Concat(Tail(seqs))

\* one entry as it lies in the file: class name, CUUID, body
FileEntry(e, it) == EncStr(e, it.bodyclass) \o EncCuuid(e, it.bodycuuid) \o it.body

RECURSIVE FileEntries(_, _)
FileEntries(e, items) ==
  IF items = <<>> THEN <<>> ELSE FileEntry(e, Head(items)) \o FileEntries(e, Tail(items))

RECURSIVE EncCuuids(_, _)
EncCuuids(e, cs) == IF cs = <<>> THEN <<>> ELSE EncCuuid(e, Head(cs)) \o EncCuuids(e, Tail(cs))

RECURSIVE EncLanguageLinks(_, _)
EncLanguageLinks(e, ls) ==
  IF ls = <<>> THEN <<>>
  ELSE Enc32(e, Head(ls).code) \o Enc32(e, Head(ls).unknown) \o EncCuuid(e, Head(ls).cuuid)
         \o EncLanguageLinks(e, Tail(ls))

\* the index records of items, the first of them lying at offset
RECURSIVE FileIndex(_, _, _, _)
FileIndex(e, items, offset, index_type) ==
  IF items = <<>> THEN <<>>
  ELSE
    LET it == Head(items)
        size == Len(FileEntry(e, it))
    IN EncStr(e, it.class) \o EncCuuid(e, it.cuuid) \o Enc32(e, FromNat(offset))
         \o Enc32(e, FromNat(size)) \o Enc32(e, Word0) \o Enc32(e, FromNat(Len(it.links)))
         \o (IF index_type = 2
               THEN EncCuuids(e, it.links) \o Enc32(e, FromNat(Len(it.languages)))
                      \o EncLanguageLinks(e, it.languages)
               ELSE <<>>)
         \o FileIndex(e, Tail(items), offset + size, index_type)

\* head is what the index starts with: magic, index type and entry count
FileOfBodies(v, e, items, head, index_type, bodies) ==
  Enc32(e, FromNat(4 + Len(bodies))) \o bodies
    \o Enc32(e, head.code) \o Enc32(e, head.type) \o Enc32(e, head.count)
    \o FileIndex(e, items, 4, index_type)
    \o (IF v = HX_VERSION_HXG \/ v = HX_VERSION_HX2 THEN Zeros(32) ELSE <<>>)

FileOf(v, items, head, index_type) ==
  FileOfBodies(v, hx_version_table[v].endianness, items, head, index_type,
               FileEntries(hx_version_table[v].endianness, items))

(***************************************************************************)
(* The entries of the files.                                               *)
(***************************************************************************)
CUUID_E1 == <<0, 0, 0, 1, 0, 0, 0, 17>>
CUUID_E2 == <<0, 0, 0, 1, 0, 0, 0, 18>>
CUUID_E3 == <<0, 0, 0, 1, 0, 0, 0, 19>>
CUUID_W1 == <<0, 0, 0, 2, 0, 0, 0, 34>>
CUUID_F1 == <<0, 0, 0, 3, 0, 0, 0, 51>>
CUUID_S1 == <<0, 0, 0, 4, 0, 0, 0, 68>>
CUUID_R1 == <<0, 0, 0, 5, 0, 0, 0, 85>>
CUUID_U1 == <<0, 0, 0, 6, 0, 0, 0, 102>>
Str_Ev == <<69, 118>>                      \* "Ev"
Str_Wr == <<87, 114>>                      \* "Wr"
Str_CFooBar == <<67, 70, 111, 111, 66, 97, 114>>
Str_a_ps == <<97, 46, 112, 115>>           \* "a.ps"
Code_en == <<101, 110, 32, 32>>
Code_xx == <<120, 120, 32, 32>>
PcmData == <<1, 2, 3, 4>>

Item(class, cuuid, body, links, languages) ==
  [class |-> class, bodyclass |-> class, cuuid |-> cuuid, bodycuuid |-> cuuid,
   body |-> body, links |-> links, languages |-> languages]

EventItem(v, cuuid, name, link) ==
  LET e == hx_version_table[v].endianness
  IN Item(hx_class_name(HX_CLASS_EVENT_RESOURCE_DATA, v), cuuid,
          Enc32(e, <<0, 0, 0, 1>>) \o EncStr(e, name) \o Enc32(e, <<0, 0, 1, 2>>)
            \o EncCuuid(e, link) \o Enc32(e, <<63, 128, 0, 0>>) \o Enc32(e, <<64, 0, 0, 0>>)
            \o Enc32(e, Word0) \o Enc32(e, <<191, 128, 0, 0>>),
          <<link>>, <<>>)

RECURSIVE EncWavLinks(_, _)
EncWavLinks(e, ls) ==
  IF ls = <<>> THEN <<>>
  ELSE Enc32(e, Head(ls).code) \o EncCuuid(e, Head(ls).cuuid) \o EncWavLinks(e, Tail(ls))

\* links: the language links, [code, unknown, cuuid] each
\* a WavResData with the multiple flag and the default CUUID default
WavResItemDefault(v, cuuid, name, links, default) ==
  LET e == hx_version_table[v].endianness
  IN Item(hx_class_name(HX_CLASS_WAVE_RESOURCE_DATA, v), cuuid,
          Enc32(e, <<0, 0, 0, 7>>)
            \o (IF v = HX_VERSION_HXC THEN EncStr(e, name) ELSE <<>>)
            \o (IF v = HX_VERSION_HXG \/ v = HX_VERSION_HX2 THEN Enc32(e, <<0, 0, 0, 9>>)
                ELSE <<>>)
            \o Enc32(e, <<63, 128, 0, 0>>) \o Enc32(e, Word0) \o Enc32(e, Word0)
            \o <<HX_WAVRES_OBJ_FLAG_MULTIPLE>> \o EncCuuid(e, default)
            \o Enc32(e, FromNat(Len(links))) \o EncWavLinks(e, links),
          <<>>, links)

WavResItem(v, cuuid, name, links) ==
  WavResItemDefault(v, cuuid, name, links, HX_INVALID_CUUID)

WaveHeaderBytes(e, riff_length, data_id, data_size) ==
  Enc32(e, WAVE_RIFF_CHUNK_ID) \o Enc32(e, FromNat(riff_length))
    \o Enc32(e, WAVE_WAVE_CHUNK_ID) \o Enc32(e, WAVE_FORMAT_CHUNK_ID)
    \o Enc32(e, <<0, 0, 0, 16>>) \o Enc16(e, <<0, HX_AUDIO_FORMAT_PCM>>) \o Enc16(e, <<0, 1>>)
    \o Enc32(e, <<0, 0, 86, 34>>) \o Enc32(e, <<0, 0, 172, 68>>) \o Enc16(e, <<0, 2>>)
    \o Enc16(e, <<0, 16>>) \o Enc32(e, data_id) \o Enc32(e, FromNat(data_size))

\* a wave file object holding its samples
WaveFileItem(v, cuuid) ==
  LET e == hx_version_table[v].endianness
  IN Item(hx_class_name(HX_CLASS_WAVE_FILE_ID_OBJECT, v), cuuid,
          Enc32(e, <<0, 0, 0, 5>>) \o Enc32(e, <<63, 0, 0, 0>>)
            \o (IF v = HX_VERSION_HXG THEN Enc32(e, Word0) \o Enc32(e, Word0) ELSE <<0>>)
            \o WaveHeaderBytes(e, 36 + Len(PcmData), WAVE_DATA_CHUNK_ID, Len(PcmData))
            \o PcmData,
          <<>>, <<>>)

\* a wave file object whose samples are in the file a.ps
ExternalWaveFileItem(v, cuuid) ==
  LET e == hx_version_table[v].endianness
      flags == <<0, 0, 0, HX_ID_OBJ_PTR_FLAG_EXTERNAL>>
  IN Item(hx_class_name(HX_CLASS_WAVE_FILE_ID_OBJECT, v), cuuid,
          Enc32(e, <<0, 0, 0, 5>>) \o Enc32(e, <<63, 0, 0, 0>>)
            \o (IF v = HX_VERSION_HXG THEN Enc32(e, flags) \o Enc32(e, Word0)
                ELSE <<flags[4]>>)
            \o EncStr(e, IF v = HX_VERSION_HX2 THEN Str_DotBackslash \o Str_a_ps ELSE Str_a_ps)
            \o WaveHeaderBytes(e, 40, WAVE_DATX_CHUNK_ID, 8)
            \o Enc32(e, FromNat(Len(PcmData))) \o Enc32(e, <<0, 0, 0, 2>>),
          <<>>, <<>>)

SwitchItem(v, cuuid, link) ==
  LET e == hx_version_table[v].endianness
  IN Item(hx_class_name(HX_CLASS_SWITCH_RESOURCE_DATA, v), cuuid,
          Enc32(e, <<0, 0, 0, 1>>) \o Enc32(e, <<0, 0, 0, 2>>) \o Enc32(e, <<0, 0, 0, 3>>)
            \o Enc32(e, Word0) \o Enc32(e, <<0, 0, 0, 1>>)
            \o Enc32(e, <<0, 0, 0, 4>>) \o EncCuuid(e, link),
          <<link>>, <<>>)

RandomItem(v, cuuid, link) ==
  LET e == hx_version_table[v].endianness
  IN Item(hx_class_name(HX_CLASS_RANDOM_RESOURCE_DATA, v), cuuid,
          Enc32(e, <<0, 0, 0, 1>>) \o Enc32(e, <<63, 0, 0, 0>>) \o Enc32(e, <<62, 128, 0, 0>>)
            \o Enc32(e, <<0, 0, 0, 1>>)
            \o Enc32(e, <<63, 128, 0, 0>>) \o EncCuuid(e, link),
          <<link>>, <<>>)

\* an entry of a class the library does not know
UnknownItem(v, cuuid) ==
  Item(Str_CFooBar, cuuid, <<9, 9, 9, 9>>, <<CUUID_E1>>, <<>>)

(***************************************************************************)
(* The files of a session.                                                 *)
(***************************************************************************)
GoodHead(n) == [code |-> INDX, type |-> <<0, 0, 0, 2>>, count |-> FromNat(n)]

\* a program whose blob holds one embedded link to the WavResData-like CUUID
\* 0x0000000300000033: the marker E, on HXC one more byte, and the CUUID
CUUID_P1 == <<0, 0, 0, 7, 0, 0, 0, 119>>
CUUID_E69 == <<0, 0, 0, 1, 0, 0, 0, 69>>
ProgramItem(v, cuuid) ==
  LET e == hx_version_table[v].endianness
  IN Item(hx_class_name(HX_CLASS_PROGRAM_RESOURCE_DATA, v), cuuid,
          <<1, 2, 69>> \o (IF v = HX_VERSION_HXC THEN <<0>> ELSE <<>>)
            \o EncCuuid(e, CUUID_F1) \o <<3, 4>>,
          <<>>, <<>>)

GraphItems(v) ==
  <<EventItem(v, CUUID_E1, Str_Ev, CUUID_W1),
    WavResItem(v, CUUID_W1, Str_Wr, <<[code |-> Code_en, unknown |-> Word0, cuuid |-> CUUID_F1]>>),
    WaveFileItem(v, CUUID_F1)>>

SceneItems(scene, v) ==
  CASE scene = "wavefirst" ->
         <<WaveFileItem(v, CUUID_F1), EventItem(v, CUUID_E1, Str_Ev, CUUID_F1)>>
    [] scene = "mixed" ->
         <<SwitchItem(v, CUUID_S1, CUUID_E1), RandomItem(v, CUUID_R1, CUUID_E1),
           EventItem(v, CUUID_E1, Str_Ev, CUUID_S1)>>
    [] scene = "unknown" ->
         <<EventItem(v, CUUID_E1, Str_Ev, CUUID_E2), UnknownItem(v, CUUID_U1),
           EventItem(v, CUUID_E2, Str_Ev, CUUID_E1)>>
    [] scene = "badcuuid" ->
         <<EventItem(v, CUUID_E1, Str_Ev, CUUID_E2),
           [EventItem(v, CUUID_E2, Str_Ev, CUUID_E3) EXCEPT !.bodycuuid = CUUID_U1],
           EventItem(v, CUUID_E3, Str_Ev, CUUID_E1)>>
    [] scene = "badclass" ->
         <<EventItem(v, CUUID_E1, Str_Ev, CUUID_E2),
           [EventItem(v, CUUID_E2, Str_Ev, CUUID_E3) EXCEPT
              !.bodyclass = hx_class_name(HX_CLASS_SWITCH_RESOURCE_DATA, v)],
           EventItem(v, CUUID_E3, Str_Ev, CUUID_E1)>>
    [] scene = "external" ->
         <<ExternalWaveFileItem(v, CUUID_F1), EventItem(v, CUUID_E1, Str_Ev, CUUID_F1)>>
    [] scene = "program" ->
         <<ProgramItem(v, CUUID_P1), EventItem(v, CUUID_E69, Str_Ev, CUUID_P1)>>
    [] scene = "default" ->
         <<EventItem(v, CUUID_E1, Str_Ev, CUUID_W1),
           WavResItemDefault(v, CUUID_W1, Str_Wr,
             <<[code |-> Code_en, unknown |-> Word0, cuuid |-> CUUID_F1]>>, CUUID_F1),
           WaveFileItem(v, CUUID_F1)>>
    [] scene \in {"empty", "badtype"} -> <<>>
    [] OTHER -> GraphItems(v)

\* what the index of the file of a scene starts with, over n entries
SceneHead(scene, n) ==
  CASE scene = "nomagic" -> [GoodHead(n) EXCEPT !.code = <<88, 68, 78, 74>>,
                                                !.type = <<0, 0, 0, 3>>]
    [] scene = "badtype" -> [GoodHead(n) EXCEPT !.type = <<0, 0, 0, 3>>]
    [] scene = "type1" -> [GoodHead(n) EXCEPT !.type = <<0, 0, 0, 1>>]
    [] OTHER -> GoodHead(n)

SceneFileOf(scene, v, items) ==
  FileOf(v, items, SceneHead(scene, Len(items)), IF scene = "type1" THEN 1 ELSE 2)

SceneFile(scene, v) == SceneFileOf(scene, v, SceneItems(scene, v))

Str_in == <<105, 110>>
Str_IN == <<73, 78>>
Str_ok == <<111, 107>>
Str_out == <<111, 117, 116>>
Str_gone == <<103, 111, 110, 101>>
Str_txt == <<116, 120, 116>>
Str_HXC == <<72, 88, 67>>
FileName(stem, ext) == stem \o <<46>> \o ext
VersionName(stem, v) == FileName(stem, hx_version_table[v].name)

\* the files on the disk when the session starts
\* file is the container of the scene
SceneDiskOf(scene, v, file) ==
  (VersionName(Str_in, v) :> file)
    @@ (CASE scene \in {"nomagic", "badtype", "empty", "badcuuid", "badclass", "unknown"} ->
               VersionName(Str_ok, v) :> SceneFile("graph", v)
          [] scene = "external" -> Str_a_ps :> <<0, 0>> \o PcmData
          [] scene = "api" ->
               (FileName(Str_in, Str_txt) :> file)
                 @@ (Str_in :> file)
                 @@ (FileName(Str_IN, Str_HXC) :> SceneFile(scene, HX_VERSION_HXC))
          [] OTHER -> <<>>)

SceneDisk(scene, v) == SceneDiskOf(scene, v, SceneFile(scene, v))

(***************************************************************************)
(* Audio conversion: what hx_audio_convert and each codec return, and what *)
(* they leave in the output stream's info, size and data pointer. The      *)
(* sample values a codec computes are kept as a term over its input.       *)
(***************************************************************************)
DSP_HEADER_SIZE == 96
DSP_BYTES_PER_FRAME == 8
DSP_SAMPLES_PER_FRAME == 14
PSX_BYTES_PER_FRAME == 16
PSX_SAMPLE_BYTES_PER_FRAME == 14
PSX_SAMPLES_PER_FRAME == 28

\* the buffer the encoder allocated and filled from the stream in
Samples(codec, in) == [null |-> FALSE, by |-> codec, from |-> in.data]

\* a conversion that stores and reads nothing behind a buffer
Converted(value, out) ==
  [ret |-> value, out |-> out, wild |-> FALSE, over |-> FALSE, ps_at |-> <<>>,
   c_at |-> <<>>]

dsp_byte_count(samples) ==
  LET frames == samples \div DSP_SAMPLES_PER_FRAME
      extra_samples == samples % DSP_SAMPLES_PER_FRAME
      extra_bytes == IF extra_samples # 0
                       THEN (extra_samples \div 2) + (extra_samples % 2) + 1 ELSE 0
  IN DSP_BYTES_PER_FRAME * frames + extra_bytes

dsp_pcm_size(sample_count) ==
  LET frames == (sample_count \div DSP_SAMPLES_PER_FRAME)
                  + (IF sample_count % DSP_SAMPLES_PER_FRAME # 0 THEN 1 ELSE 0)
  IN frames * DSP_SAMPLES_PER_FRAME * 2

psx_sample_count(sz, ch) == ((sz \div ch) \div PSX_BYTES_PER_FRAME) * PSX_SAMPLES_PER_FRAME

psx_pcm_size(sample_count) ==
  LET frames == (sample_count \div PSX_SAMPLES_PER_FRAME)
                  + (IF sample_count % PSX_SAMPLES_PER_FRAME # 0 THEN 1 ELSE 0)
  IN frames * PSX_SAMPLES_PER_FRAME * 2

SHRT_MIN == -32768
SHRT_MAX == 32767

\* a signed short and a signed int out of their bytes, most significant first
Int16(w) == IF w[1] >= 128 THEN (w[1] - 256) * 256 + w[2] ELSE w[1] * 256 + w[2]
Int32(w) == (((IF w[1] >= 128 THEN w[1] - 256 ELSE w[1]) * 256 + w[2]) * 256 + w[3]) * 256 + w[4]

\* what a short and an int hold that the program never set
UninitShort(fill) == Int16(<<fill, fill>>)
UninitInt(fill) == Int32(UninitWord(fill))

Clamp16(x) == IF x < SHRT_MIN THEN SHRT_MIN ELSE IF x > SHRT_MAX THEN SHRT_MAX ELSE x

\* the byte a decoder reads at src, and whether src lies behind the input
ByteAt(d, src) == BufGet(d.data, src, 1)[1]
Behind(d, src) == d.over \/ src >= d.size

\* dst[index] = sample; wild: the store went behind the out->size bytes of
\* out->data
Store(d, index, sample) ==
  IF index < Len(d.pcm) THEN [d EXCEPT !.pcm[index + 1] = sample]
  ELSE [d EXCEPT !.wild = TRUE]

\* dsp_adpcm_header_rw on the header of channel c (0 ..): the fields in the
\* order of the stream, num_samples at 0, c[16] at 28, gain, ps, hst1, hst2,
\* loop_ps, loop_hst1 and loop_hst2 at 60 .. 72; history1 and history2 are
\* not set by it, remaining is set by dsp_decode
dsp_header_c(st, c, i) ==
  Int16(stream_rw16(stream_seek(st, c * DSP_HEADER_SIZE + 28 + 2 * i), <<0, 0>>).v)

dsp_adpcm_header_rw(st, c, fill) ==
  [num_samples |-> ToNat(stream_rw32(stream_seek(st, c * DSP_HEADER_SIZE), Word0).v),
   c |-> [i \in 1 .. 16 |-> dsp_header_c(st, c, i - 1)],
   gain |-> Int16(stream_rw16(stream_seek(st, c * DSP_HEADER_SIZE + 60), <<0, 0>>).v),
   ps |-> Int16(stream_rw16(stream_seek(st, c * DSP_HEADER_SIZE + 62), <<0, 0>>).v),
   hst1 |-> Int16(stream_rw16(stream_seek(st, c * DSP_HEADER_SIZE + 64), <<0, 0>>).v),
   hst2 |-> Int16(stream_rw16(stream_seek(st, c * DSP_HEADER_SIZE + 66), <<0, 0>>).v),
   loop_ps |-> Int16(stream_rw16(stream_seek(st, c * DSP_HEADER_SIZE + 68), <<0, 0>>).v),
   loop_hst1 |-> Int16(stream_rw16(stream_seek(st, c * DSP_HEADER_SIZE + 70), <<0, 0>>).v),
   loop_hst2 |-> Int16(stream_rw16(stream_seek(st, c * DSP_HEADER_SIZE + 72), <<0, 0>>).v),
   history1 |-> UninitInt(fill), history2 |-> UninitInt(fill),
   remaining |-> ToNat(stream_rw32(stream_seek(st, c * DSP_HEADER_SIZE), Word0).v)]

\* dsp_decode, first loop: the sum of num_samples over the headers of
\* channels c .. n - 1
RECURSIVE dsp_total_samples(_, _, _)
dsp_total_samples(channels, c, n) ==
  IF c >= n THEN 0
  ELSE channels[c + 1].num_samples + dsp_total_samples(channels, c + 1, n)

\* the nibble sample s of a frame is made of: the high one of *src for an even
\* s, the low one for an odd s, after which src moves on
dsp_nibble(d, s) ==
  IF s % 2 = 0 THEN (ByteAt(d, d.src) \div 16) % 16 ELSE ByteAt(d, d.src) % 16

dsp_sample(nibble, f, hst1, hst2) ==
  Clamp16((((f.scale * (IF nibble >= 8 THEN nibble - 16 ELSE nibble)) * 2048) + 1024
             + (f.c1 * hst1 + f.c2 * hst2)) \div 2048)

dsp_src_after(d, s) ==
  [d EXCEPT !.over = Behind(d, d.src), !.src = IF s % 2 = 0 THEN @ ELSE @ + 1]

\* the loop over the samples s .. count - 1 of channel f.c in one frame
RECURSIVE dsp_frame_samples(_, _, _, _, _)
dsp_frame_store(d, f, s, hst1, sample) ==
  Then(sample,
       dsp_frame_samples(Store(dsp_src_after(d, s), d.dst + s * d.num_channels + f.c, sample),
                         f, s + 1, sample, hst1))

dsp_frame_samples(d, f, s, hst1, hst2) ==
  IF s >= f.count THEN [d |-> d, hst1 |-> hst1, hst2 |-> hst2]
  ELSE dsp_frame_store(d, f, s, hst1, dsp_sample(dsp_nibble(d, s), f, hst1, hst2))

\* the end of the loop body for channel c: the history and remaining
dsp_channel_done(c, count, r) ==
  [r.d EXCEPT !.channels[c + 1].history1 = r.hst1,
              !.channels[c + 1].history2 = r.hst2,
              !.channels[c + 1].remaining = @ - count]

\* the two shorts an int is made of on the host
Low16(x) == IF x % 65536 >= 32768 THEN (x % 65536) - 65536 ELSE x % 65536
High16(x) == x \div 65536
HostShort(x, k) ==
  IF (k = 0) = (HX_NATIVE_ENDIAN = HX_LITTLE_ENDIAN) THEN Low16(x) ELSE High16(x)

\* adpcm->c[index] for channel c (0 ..) and index 0 .. 31. c has 16 shorts;
\* behind it struct dsp_adpcm holds gain, ps, hst1, hst2, loop_ps, loop_hst1
\* and loop_hst2 (index 16 .. 22), two bytes nothing has written (23), and
\* the ints history1, history2 and remaining (24 .. 29). Index 30 and 31 lie
\* behind the struct: in num_samples of the next element of channels[], or
\* behind the array in what the stack held.
DSP_COEFFICIENTS == 16
dsp_c(d, c, index) ==
  LET adpcm == d.channels[c + 1] IN
    CASE index < DSP_COEFFICIENTS -> adpcm.c[index + 1]
      [] index = 16 -> adpcm.gain
      [] index = 17 -> adpcm.ps
      [] index = 18 -> adpcm.hst1
      [] index = 19 -> adpcm.hst2
      [] index = 20 -> adpcm.loop_ps
      [] index = 21 -> adpcm.loop_hst1
      [] index = 22 -> adpcm.loop_hst2
      [] index = 23 -> UninitShort(d.fill)
      [] index \in {24, 25} -> HostShort(adpcm.history1, index - 24)
      [] index \in {26, 27} -> HostShort(adpcm.history2, index - 26)
      [] index \in {28, 29} -> HostShort(adpcm.remaining, index - 28)
      [] OTHER -> IF c + 1 < d.num_channels
                    THEN HostShort(d.channels[c + 2].num_samples, index - 30)
                    ELSE UninitShort(d.fill)

\* the frame's constants out of its first byte ps, read at src
dsp_frame_of(d, c, ps) ==
  [c |-> c, scale |-> 2 ^ (ps % 16), predictor |-> (ps \div 16) % 16,
   c1 |-> dsp_c(d, c, ((ps \div 16) % 16) * 2 + 0),
   c2 |-> dsp_c(d, c, ((ps \div 16) % 16) * 2 + 1),
   count |-> IF d.channels[c + 1].remaining > DSP_SAMPLES_PER_FRAME
               THEN DSP_SAMPLES_PER_FRAME
               ELSE d.channels[c + 1].remaining]

\* c_at is no variable of the program: it lists the indices into c[] the
\* frames have used
dsp_frame_start(d, f) ==
  dsp_channel_done(f.c, f.count,
    dsp_frame_samples([d EXCEPT !.over = Behind(d, d.src), !.src = @ + 1,
                                !.ps_at = Append(@, d.src),
                                !.c_at = @ \o <<f.predictor * 2 + 0, f.predictor * 2 + 1>>],
                      f, 0, d.channels[f.c + 1].history1, d.channels[f.c + 1].history2))

dsp_frame_channel(d, c) ==
  dsp_frame_start(d, dsp_frame_of(d, c, ByteAt(d, d.src)))

\* the loop over the channels c .. num_channels - 1 of one frame
RECURSIVE dsp_frame_channels(_, _)
dsp_frame_channels(d, c) ==
  IF c >= d.num_channels THEN d
  ELSE Then(d, dsp_frame_channels(dsp_frame_channel(d, c), c + 1))

\* the loop over the frames i .. num_frames - 1
RECURSIVE dsp_frames(_, _, _)
dsp_frames_next(d, i, num_frames) ==
  Then(d, dsp_frames([d EXCEPT !.dst = @ + DSP_SAMPLES_PER_FRAME * d.num_channels],
                     i + 1, num_frames))

dsp_frames(d, i, num_frames) ==
  IF i >= num_frames THEN d
  ELSE dsp_frames_next(dsp_frame_channels(d, 0), i, num_frames)

\* the state a decoder starts its frames in: src at the stream's position,
\* dst at the start of the size bytes malloc gave, which hold what they held;
\* bad: the decoder has left its loops with return -1
Decoding(in, pos, size, fill, channels) ==
  [data |-> in.data.data, size |-> ToNat(in.size), src |-> pos, over |-> FALSE,
   num_channels |-> in.info.num_channels, channels |-> channels,
   dst |-> 0, pcm |-> Repeat(UninitShort(fill), size \div 2), wild |-> FALSE,
   ps_at |-> <<>>, c_at |-> <<>>, fill |-> fill, bad |-> FALSE]

\* what a decoder leaves: its return, the output stream, and what it did on
\* the way (the stores behind out->data, the reads behind in->data, the
\* offsets of the frames' first bytes)
Decoded(in, total_samples, size, value, d) ==
  [ret |-> value,
   out |-> [info |-> [in.info EXCEPT !.fmt = HX_AUDIO_FORMAT_PCM,
                                     !.num_samples = FromNat(total_samples)],
            size |-> FromNat(size),
            data |-> [null |-> FALSE, pcm |-> d.pcm]],
   wild |-> d.wild, over |-> d.over, ps_at |-> d.ps_at, c_at |-> d.c_at]

dsp_decode_frames(in, fill, channels, total_samples) ==
  Decoded(in, total_samples, dsp_pcm_size(total_samples), 1,
          dsp_frames(Decoding(in, in.info.num_channels * DSP_HEADER_SIZE,
                              dsp_pcm_size(total_samples), fill, channels),
                     0, (total_samples + DSP_SAMPLES_PER_FRAME - 1) \div DSP_SAMPLES_PER_FRAME))

dsp_decode_channels(in, fill, channels) ==
  dsp_decode_frames(in, fill, channels,
                    dsp_total_samples(channels, 0, in.info.num_channels))

\* dsp_decode has no failure exit
dsp_decode(in, out, fill) ==
  dsp_decode_channels(in, fill,
    [c \in 1 .. in.info.num_channels |->
       dsp_adpcm_header_rw(stream_create(in.data.data, ToNat(in.size), STREAM_MODE_READ,
                                         in.info.endianness), c - 1, fill)])

\* dsp_encode: the bytes the frames n .. framecount - 1 of one channel take
RECURSIVE dsp_encoded_bytes(_, _, _)
dsp_encoded_bytes(num_samples, n, framecount) ==
  IF n >= framecount THEN 0
  ELSE LET left == num_samples - n * DSP_SAMPLES_PER_FRAME
           samples_to_process == IF left < DSP_SAMPLES_PER_FRAME THEN left
                                 ELSE DSP_SAMPLES_PER_FRAME
       IN dsp_byte_count(samples_to_process)
            + dsp_encoded_bytes(num_samples, n + 1, framecount)

\* dsp_encode ends with return 0 on its only path
dsp_encode(in, out) ==
  LET num_samples == ToNat(in.info.num_samples)
      framecount == (num_samples \div DSP_SAMPLES_PER_FRAME)
                      + (IF num_samples % DSP_SAMPLES_PER_FRAME # 0 THEN 1 ELSE 0)
      pos == in.info.num_channels * DSP_HEADER_SIZE
               + in.info.num_channels * dsp_encoded_bytes(num_samples, 0, framecount)
  IN Converted(0, [info |-> [in.info EXCEPT !.fmt = HX_AUDIO_FORMAT_DSP,
                                            !.endianness = HX_BIG_ENDIAN],
                   size |-> FromNat(pos),
                   data |-> Samples("dsp_encode", in)])

\* psx_adpcm_coefficients, rows 0 .. 15, each float as its count of 256ths
psx_adpcm_coefficients ==
  <<<<0, 0>>, <<240, 0>>, <<460, -208>>, <<392, -220>>, <<488, -240>>,
    <<120, 0>>, <<230, -104>>, <<196, -110>>, <<244, -120>>, <<60, 0>>,
    <<115, -52>>, <<98, -55>>, <<122, -60>>, <<128, -240>>, <<60, -240>>,
    <<28, -240>>>>

\* history[c][k] after memset(history, 0, num_channels * 2): the int with the
\* number i = 2 * c + k has its bytes at 4 * i .. 4 * i + 3 of the array, and
\* the first num_channels * 2 bytes of the array are zero
psx_history(num_channels, i, fill) ==
  Int32(FromHost([b \in 1 .. 4 |-> IF 4 * i + b - 1 < num_channels * 2 THEN 0 ELSE fill]))

\* a history as the sum takes it. The sum is made in double and then brought
\* into SHRT_MIN .. SHRT_MAX; a history the decoder has stored is a short, and
\* one of the size 2^21 or more is what memory held before the call: it takes
\* the sum out of that range for every row that does not multiply it by 0.
PsxHistoryBound == 2097152
psx_history_term(h) ==
  IF h > PsxHistoryBound THEN PsxHistoryBound
  ELSE IF h < -PsxHistoryBound THEN -PsxHistoryBound ELSE h

\* (short) of a double as the next integer below it
Floor256(x) == x \div 256

\* (short) of a double: the fraction is dropped
Truncate256(x) == IF x >= 0 THEN x \div 256 ELSE -((-x) \div 256)

\* expanded[s]: the low nibble of src[y] for s = 2 * y, the high one for
\* s = 2 * y + 1; then sample = expanded[s] << 12, made negative when bit 15
\* is set
psx_expanded(d, s) ==
  IF s % 2 = 0 THEN ByteAt(d, d.src + s \div 2) % 16
  ELSE (ByteAt(d, d.src + s \div 2) \div 16) % 16

psx_sample(nibble, f, hst1, hst2) ==
  Clamp16(Truncate256(
    256 * (((IF nibble >= 8 THEN nibble - 16 ELSE nibble) * 4096) \div (2 ^ f.shift))
      + psx_adpcm_coefficients[f.predict + 1][1] * psx_history_term(hst1)
      + psx_adpcm_coefficients[f.predict + 1][2] * psx_history_term(hst2)))

\* the loop over the samples s .. 27 of channel f.c in one frame
RECURSIVE psx_frame_samples(_, _, _, _, _)
psx_frame_store(d, f, s, hst1, sample) ==
  Then(sample,
       psx_frame_samples(Store([d EXCEPT !.over = Behind(d, d.src + s \div 2)],
                               d.dst + s * d.num_channels + f.c, sample),
                         f, s + 1, sample, hst1))

psx_frame_samples(d, f, s, hst1, hst2) ==
  IF s >= PSX_SAMPLES_PER_FRAME THEN [d |-> d, hst1 |-> hst1, hst2 |-> hst2]
  ELSE psx_frame_store(d, f, s, hst1, psx_sample(psx_expanded(d, s), f, hst1, hst2))

\* the end of the loop body for channel c: the history, and src moved over
\* the PSX_SAMPLE_BYTES_PER_FRAME bytes of nibbles
psx_channel_done(c, r) ==
  [r.d EXCEPT !.channels[c + 1] = <<r.hst1, r.hst2>>,
              !.src = @ + PSX_SAMPLE_BYTES_PER_FRAME]

\* psx_frame_start with the bound one higher: predict 5 is let through
psx_frame_start_above5(d, f) ==
  IF f.predict > 5
    THEN [d EXCEPT !.over = Behind(d, d.src + 1), !.src = @ + 2,
                   !.ps_at = Append(@, d.src), !.bad = TRUE]
  ELSE psx_channel_done(f.c,
         psx_frame_samples([d EXCEPT !.over = Behind(d, d.src + 1), !.src = @ + 2,
                                     !.ps_at = Append(@, d.src)],
                           f, 0, d.channels[f.c + 1][1], d.channels[f.c + 1][2]))

\* one pass of the loop body for channel f.c: the two bytes at the head of
\* the block are read, and the decoder leaves with -1 when predict is above 4
psx_frame_start(d, f) ==
  IF f.predict > 4
    THEN [d EXCEPT !.over = Behind(d, d.src + 1), !.src = @ + 2,
                   !.ps_at = Append(@, d.src), !.bad = TRUE]
  ELSE psx_channel_done(f.c,
         psx_frame_samples([d EXCEPT !.over = Behind(d, d.src + 1), !.src = @ + 2,
                                     !.ps_at = Append(@, d.src)],
                           f, 0, d.channels[f.c + 1][1], d.channels[f.c + 1][2]))

psx_frame_channel(d, c) ==
  psx_frame_start(d, [c |-> c, predict |-> (ByteAt(d, d.src) \div 16) % 16,
                      shift |-> ByteAt(d, d.src) % 16])

\* the loop over the channels c .. num_channels - 1 of one frame
RECURSIVE psx_frame_channels(_, _)
psx_frame_channels(d, c) ==
  IF c >= d.num_channels \/ d.bad THEN d
  ELSE Then(d, psx_frame_channels(psx_frame_channel(d, c), c + 1))

\* the loop over the frames i .. num_frames - 1
RECURSIVE psx_frames(_, _, _)
psx_frames_next(d, i, num_frames) ==
  Then(d, psx_frames([d EXCEPT !.dst = @ + PSX_SAMPLES_PER_FRAME * d.num_channels],
                     i + 1, num_frames))

psx_frames(d, i, num_frames) ==
  IF i >= num_frames \/ d.bad THEN d
  ELSE psx_frames_next(psx_frame_channels(d, 0), i, num_frames)

psx_decode_return(in, total_samples, d) ==
  Decoded(in, total_samples, psx_pcm_size(total_samples), IF d.bad THEN -1 ELSE 1, d)

psx_decode_frames(in, fill, total_samples) ==
  psx_decode_return(in, total_samples,
    psx_frames(Decoding(in, 0, psx_pcm_size(total_samples), fill,
                        [c \in 1 .. in.info.num_channels |->
                           <<psx_history(in.info.num_channels, 2 * (c - 1), fill),
                             psx_history(in.info.num_channels, 2 * (c - 1) + 1, fill)>>]),
               0, (total_samples + PSX_SAMPLES_PER_FRAME - 1) \div PSX_SAMPLES_PER_FRAME))

\* psx_decode returns -1 from inside its loop at a block whose predict is
\* above 4, after it has set the output's info and size and allocated its data
psx_decode(in, out, fill) ==
  psx_decode_frames(in, fill, psx_sample_count(ToNat(in.size), in.info.num_channels))

hx_audio_convert(in, out, fill) ==
  IF in.info.fmt = HX_AUDIO_FORMAT_PCM /\ out.info.fmt = HX_AUDIO_FORMAT_PCM
    THEN Converted(0, in)
  ELSE IF in.info.fmt = HX_AUDIO_FORMAT_DSP /\ out.info.fmt = HX_AUDIO_FORMAT_PCM
    THEN dsp_decode(in, out, fill)
  ELSE IF in.info.fmt = HX_AUDIO_FORMAT_PSX /\ out.info.fmt = HX_AUDIO_FORMAT_PCM
    THEN psx_decode(in, out, fill)
  ELSE IF in.info.fmt = HX_AUDIO_FORMAT_PCM /\ out.info.fmt = HX_AUDIO_FORMAT_DSP
    THEN dsp_encode(in, out)
  ELSE Converted(-1, out)

(***************************************************************************)
(* State.                                                                  *)
(*   s, val, lastw, nops: a stream, the caller's variable after the last   *)
(*   read, the last write made through the stream and the number of calls  *)
(*   made (the stream routines exercised on their own).                    *)
(*   hx: the context the client holds (NULL once freed); disk: the files   *)
(*   the callbacks reach; ret: what the last hx_context_open returned;     *)
(*   errs: the messages the last call handed to the error callback;        *)
(*   flags: whether the last call failed an assert or went through a       *)
(*   pointer the program never set; last: the last call; snap: the entries *)
(*   as they were before and after the last hx_context_write that wrote a  *)
(*   file; scn: the session (the files, the variant written, the byte in   *)
(*   unwritten memory); calls: the number of calls made.                   *)
(*   audio: a call of hx_audio_convert: its input stream, the format asked *)
(*   for, the output stream, what the call returned, whether it was made.  *)
(*   call: a routine of the library called on its own: its arguments, how  *)
(*   far the calls have got, what they returned.                           *)
(***************************************************************************)
VARIABLES s, val, lastw, nops, hx, disk, ret, errs, flags, last, snap, scn, calls, audio,
          call

streamVars == <<s, val, lastw, nops>>
contVars == <<hx, disk, ret, errs, flags, last, snap, scn, calls>>
audioVars == <<audio>>
callVars == <<call>>
vars == <<s, val, lastw, nops, hx, disk, ret, errs, flags, last, snap, scn, calls, audio,
          call>>

\* no conversion is under way
NoAudio == [done |-> FALSE, want |-> 0, ret |-> 0]

\* no routine is called on its own
NoCall == [op |-> "none"]

None == [kind |-> "none"]

Width(kind) ==
  CASE kind = "u8" -> 1 [] kind = "u16" -> 2 [] kind = "u32" -> 4
    [] kind = "float" -> 4 [] kind = "cuuid" -> 8

Kinds == {"u8", "u16", "u32", "float", "cuuid"}

\* The values the routines are exercised on (digits, most significant first).
BenchValues(kind) ==
  CASE kind = "u8" -> {<<200>>}
    [] kind = "u16" -> {<<18, 52>>}
    [] kind = "u32" -> {<<18, 52, 86, 120>>}
    [] kind = "float" -> {<<63, 128, 0, 0>>}
    [] kind = "cuuid" -> {<<0, 0, 0, 3, 222, 173, 190, 239>>,
                          <<0, 0, 0, 1, 1, 0, 0, 0>>,
                          <<1, 2, 3, 4, 1, 2, 3, 4>>}

BenchSeeks == {0, 3}

Rw(kind, st, v) ==
  CASE kind = "u8" -> stream_rw8(st, v)
    [] kind = "u16" -> stream_rw16(st, v)
    [] kind = "u32" -> stream_rw32(st, v)
    [] kind = "float" -> stream_rwfloat(st, v)
    [] kind = "cuuid" -> stream_rwcuuid(st, v)

InitStream ==
  /\ \E e \in {HX_BIG_ENDIAN, HX_LITTLE_ENDIAN} :
       s = stream_alloc(BenchSize, STREAM_MODE_WRITE, e)
  /\ val = None
  /\ lastw = None
  /\ nops = 0
  /\ hx = NULL /\ disk = <<>> /\ ret = 0 /\ errs = <<>>
  /\ flags = [abort |-> FALSE, wild |-> FALSE]
  /\ last = [op |-> "none"] /\ snap = NULL /\ scn = [scene |-> "none"] /\ calls = 0
  /\ audio = NoAudio
  /\ call = NoCall

\* stream_seek on the stream
BenchSeek ==
  /\ nops < MaxBenchOps
  /\ \E p \in BenchSeeks : s' = stream_seek(s, p)
  /\ val' = None
  /\ nops' = nops + 1
  /\ UNCHANGED lastw
  /\ UNCHANGED contVars
  /\ UNCHANGED audioVars
  /\ UNCHANGED callVars

\* one rw call in write mode, its value taken from the caller's variable
BenchWrite ==
  /\ s.mode = STREAM_MODE_WRITE
  /\ nops < MaxBenchOps
  /\ \E kind \in Kinds : \E v \in BenchValues(kind) :
       /\ s.pos + Width(kind) <= s.size
       /\ LET r == Rw(kind, s, v) IN
            /\ s' = r.s
            /\ lastw' = [kind |-> kind, v |-> v, pos |-> s.pos, after |-> r.s.pos,
                         e |-> s.endianness, left |-> r.v]
  /\ val' = None
  /\ nops' = nops + 1
  /\ UNCHANGED contVars
  /\ UNCHANGED audioVars
  /\ UNCHANGED callVars

\* the buffer is handed to a read-mode stream
BenchReopen ==
  /\ s.mode = STREAM_MODE_WRITE
  /\ nops < MaxBenchOps
  /\ \E e \in {HX_BIG_ENDIAN, HX_LITTLE_ENDIAN} :
       s' = stream_create(s.buf, s.size, STREAM_MODE_READ, e)
  /\ val' = None
  /\ nops' = nops + 1
  /\ UNCHANGED lastw
  /\ UNCHANGED contVars
  /\ UNCHANGED audioVars
  /\ UNCHANGED callVars

\* one rw call in read mode
BenchRead ==
  /\ s.mode = STREAM_MODE_READ
  /\ nops < MaxBenchOps
  /\ \E kind \in Kinds :
       /\ s.pos + Width(kind) <= s.size
       /\ LET r == Rw(kind, s, Zeros(Width(kind))) IN
            /\ s' = r.s
            /\ val' = [kind |-> kind, v |-> r.v, pos |-> s.pos, after |-> r.s.pos]
  /\ nops' = nops + 1
  /\ UNCHANGED lastw
  /\ UNCHANGED contVars
  /\ UNCHANGED audioVars
  /\ UNCHANGED callVars

NextStream == BenchSeek \/ BenchWrite \/ BenchReopen \/ BenchRead

SpecStream == InitStream /\ [][NextStream]_vars

(***************************************************************************)
(* Claims about the stream.                                                *)
(***************************************************************************)
\* a word as it lies in a stream of endianness e
InEndian(e, w) == IF e = HX_BIG_ENDIAN THEN w ELSE Reverse(w)

\* C2: a value written by an rw routine and read back at the same position by
\* the same routine, on a read-mode stream of the same endianness over the same
\* buffer, is the value written.
C2_StreamInverse ==
  (val.kind # "none" /\ lastw.kind = val.kind /\ lastw.pos = val.pos
     /\ lastw.e = s.endianness) => val.v = lastw.v

C2_Witness ==
  /\ val.kind = "u32" /\ lastw.kind = "u32" /\ lastw.pos = val.pos
  /\ lastw.e = HX_BIG_ENDIAN /\ s.endianness = HX_BIG_ENDIAN
  /\ val.v = <<18, 52, 86, 120>>

\* the two words rwcuuid has written, and the cursor after them
CuuidLayout ==
  /\ BufGet(s.buf, lastw.pos, 4) = InEndian(lastw.e, SubSeq(lastw.v, 1, 4))
  /\ BufGet(s.buf, lastw.pos + 4, 4) = InEndian(lastw.e, SubSeq(lastw.v, 5, 8))
  /\ lastw.after = lastw.pos + 8

\* C3 (as stated): rwcuuid writes the high word, then the low word, each in the
\* stream's endianness, and advances by 8; whenever the halves differ the bytes
\* written differ from the plain 64-bit little-endian serialization.
C3_AsStated ==
  lastw.kind = "cuuid" =>
    /\ CuuidLayout
    /\ SubSeq(lastw.v, 1, 4) # SubSeq(lastw.v, 5, 8) =>
         BufGet(s.buf, lastw.pos, 8) # Reverse(lastw.v)

\* C3 (amended): the layout and the cursor as stated; the bytes differ from the
\* plain little-endian serialization on a little-endian stream whenever the
\* halves differ, and on a big-endian stream exactly when the eight bytes of
\* the CUUID do not read the same in both directions.
C3_CuuidHalves ==
  lastw.kind = "cuuid" =>
    /\ CuuidLayout
    /\ (lastw.e = HX_LITTLE_ENDIAN /\ SubSeq(lastw.v, 1, 4) # SubSeq(lastw.v, 5, 8)) =>
         BufGet(s.buf, lastw.pos, 8) # Reverse(lastw.v)
    /\ lastw.e = HX_BIG_ENDIAN =>
         (BufGet(s.buf, lastw.pos, 8) # Reverse(lastw.v) <=> lastw.v # Reverse(lastw.v))

C3_Witness ==
  /\ lastw.kind = "cuuid" /\ lastw.e = HX_LITTLE_ENDIAN
  /\ lastw.v = <<0, 0, 0, 3, 222, 173, 190, 239>>
  /\ BufGet(s.buf, lastw.pos, 8) = <<3, 0, 0, 0, 239, 190, 173, 222>>

(***************************************************************************)
(* The client of the library: it opens the files of the session, writes    *)
(* the context out, frees it and allocates it again.                       *)
(***************************************************************************)
MaxCalls == 3
Fills == {0, 170}

Scenarios ==
  {[scene |-> "graph", v |-> v, t |-> v, fill |-> f] : v \in Versions, f \in Fills}
    \cup {[scene |-> sc, v |-> v, t |-> v, fill |-> 0] :
            sc \in {"wavefirst", "external"}, v \in Versions}
    \cup {[scene |-> "graph", v |-> p[1], t |-> p[2], fill |-> 0] :
            p \in {<<HX_VERSION_HXC, HX_VERSION_HXG>>, <<HX_VERSION_HXG, HX_VERSION_HXC>>,
                   <<HX_VERSION_HX2, HX_VERSION_HXD>>, <<HX_VERSION_HXD, HX_VERSION_HXX>>}}
    \cup {[scene |-> sc, v |-> v, t |-> v, fill |-> 0] :
            sc \in {"mixed", "type1", "nomagic", "badtype", "empty", "badcuuid", "badclass",
                    "unknown", "api", "default", "program"},
            v \in {HX_VERSION_HXC, HX_VERSION_HXG}}

\* the names the client passes to hx_context_open
OpenArgs ==
  {Buf(n) : n \in DOMAIN disk \ {Str_a_ps}}
    \cup (IF scn.scene = "api" THEN {NULL, Buf(VersionName(Str_gone, scn.v))} ELSE {})

Running(fill) == [hx |-> hx, disk |-> disk, errs |-> <<>>, fill |-> fill,
                  abort |-> FALSE, wild |-> FALSE, bodies |-> <<>>]

\* a context the client may hand to hx_context_write: every entry has a
\* class of the table and the data its class routine reads
Writable(h) ==
  \A i \in 1 .. Len(h.entries) :
    h.entries[i].i_class # HX_CLASS_INVALID /\ h.entries[i].p_data # NULL

Init ==
  /\ scn \in Scenarios
  /\ hx = hx_context_alloc(scn.fill)
  /\ disk = SceneDisk(scn.scene, scn.v)
  /\ ret = 0 /\ errs = <<>>
  /\ flags = [abort |-> FALSE, wild |-> FALSE]
  /\ last = [op |-> "alloc"] /\ snap = NULL /\ calls = 0
  /\ s = stream_create(<<>>, 0, STREAM_MODE_READ, HX_NATIVE_ENDIAN)
  /\ val = None /\ lastw = None /\ nops = 0
  /\ audio = NoAudio
  /\ call = NoCall

\* the client's variables after hx_context_open(hx, f) has returned r
Opened(f, r) ==
  /\ hx' = r.c.hx
  /\ disk' = r.c.disk
  /\ ret' = r.ret
  /\ errs' = r.c.errs
  /\ flags' = [abort |-> r.c.abort, wild |-> r.c.wild]
  /\ last' = [op |-> "open", file |-> f]

ContextOpen ==
  /\ ~hx.null
  /\ calls < MaxCalls
  /\ \E f \in OpenArgs : Opened(f, hx_context_open(Running(scn.fill), f))
  /\ calls' = calls + 1
  /\ UNCHANGED <<snap, scn>>
  /\ UNCHANGED streamVars
  /\ UNCHANGED audioVars
  /\ UNCHANGED callVars

\* the client's variables after hx_context_write(hx, name, t) has returned r
Written(name, r) ==
  /\ hx' = r.c.hx
  /\ disk' = r.c.disk
  /\ errs' = r.c.errs
  /\ flags' = [abort |-> r.c.abort, wild |-> r.c.wild]
  /\ last' = [op |-> "write", file |-> Buf(name), version |-> scn.t, hx2 |-> r.ret]
  /\ snap' = IF r.ret = 0
               THEN [null |-> FALSE, file |-> name, before |-> hx.entries,
                     stream |-> hx.stream, bodies |-> r.c.bodies]
               ELSE snap

ContextWrite ==
  /\ ~hx.null
  /\ calls < MaxCalls
  /\ Writable(hx)
  /\ Written(VersionName(Str_out, scn.t),
             hx_context_write(Running(scn.fill), VersionName(Str_out, scn.t), scn.t))
  /\ calls' = calls + 1
  /\ UNCHANGED <<ret, scn>>
  /\ UNCHANGED streamVars
  /\ UNCHANGED audioVars
  /\ UNCHANGED callVars

ContextFree ==
  /\ ~hx.null
  /\ calls < MaxCalls
  /\ hx' = NULL
  /\ errs' = <<>>
  /\ flags' = [abort |-> FALSE,
               wild |-> \E i \in 1 .. Len(hx.entries) : ~hx.entries[i].links_set]
  /\ last' = [op |-> "free"]
  /\ calls' = calls + 1
  /\ UNCHANGED <<disk, ret, snap, scn>>
  /\ UNCHANGED streamVars
  /\ UNCHANGED audioVars
  /\ UNCHANGED callVars

ContextAlloc ==
  /\ hx.null
  /\ calls < MaxCalls
  /\ hx' = hx_context_alloc(scn.fill)
  /\ errs' = <<>>
  /\ flags' = [abort |-> FALSE, wild |-> FALSE]
  /\ last' = [op |-> "alloc"]
  /\ calls' = calls + 1
  /\ UNCHANGED <<disk, ret, snap, scn>>
  /\ UNCHANGED streamVars
  /\ UNCHANGED audioVars
  /\ UNCHANGED callVars

\* the CUUIDs the client looks for
FindArgs == {CUUID_E1, CUUID_W1, CUUID_U1}

\* the client calls hx_context_find_entry(hx, cuuid)
ContextFindEntry ==
  /\ ~hx.null
  /\ calls < MaxCalls
  /\ \E cuuid \in FindArgs :
       last' = [op |-> "find", cuuid |-> cuuid,
                found |-> hx_context_find_entry(hx.entries, cuuid, 1)]
  /\ calls' = calls + 1
  /\ UNCHANGED <<hx, disk, ret, errs, flags, snap, scn>>
  /\ UNCHANGED streamVars
  /\ UNCHANGED audioVars
  /\ UNCHANGED callVars

Next == ContextOpen \/ ContextWrite \/ ContextFree \/ ContextAlloc \/ ContextFindEntry

Spec == Init /\ [][Next]_vars

\* ---------------------------------------------------------------------
\* Claims about the container.

\* a context fresh from hx_context_alloc, over the files of d
Fresh(d) == [hx |-> hx_context_alloc(scn.fill), disk |-> d, errs |-> <<>>,
             fill |-> scn.fill, abort |-> FALSE, wild |-> FALSE, bodies |-> <<>>]

\* the entries a fresh context holds after hx_context_open of name
ReadOf(d, name) == hx_context_open(Fresh(d), Buf(name))

\* same number of entries in the same order, each with the same class,
\* CUUID and body
SameEntries(a, b) ==
  /\ Len(a) = Len(b)
  /\ \A i \in 1 .. Len(a) :
       /\ a[i].i_class = b[i].i_class
       /\ a[i].i_cuuid = b[i].i_cuuid
       /\ a[i].p_data = b[i].p_data

\* the last call wrote, as the variant of the scenario's file, a context
\* holding exactly what reading that file gives
WroteReadOfF ==
  /\ last.op = "write" /\ last.hx2 = 0
  /\ scn.t = scn.v
  /\ scn.scene \in {"graph", "wavefirst", "external", "mixed"}
  /\ LET first == ReadOf(SceneDisk(scn.scene, scn.v), VersionName(Str_in, scn.v)) IN
       first.ret = 0 /\ snap.before = first.c.hx.entries

\* C1: reading a valid file F of variant V, writing the context as V and
\* reading the written file again gives the entry sequence of reading F:
\* same count, same order, same class, CUUID and body of every entry.
\* (Stated for a heap that reads as zero, where no string read from the
\* file picks up bytes past its end.)
C1_RoundTrip ==
  (WroteReadOfF /\ scn.fill = 0) =>
    LET again == ReadOf(disk, snap.file) IN
      /\ again.ret = 0
      /\ SameEntries(again.c.hx.entries, snap.before)

\* a file was read on a zero heap and written back as its own variant
C1_Written == WroteReadOfF /\ scn.fill = 0

\* the file of the scenario whose index header is invalid, and the message
\* its first failing check gives
BadHeaderScenes == {"nomagic", "badtype", "empty"}
HeaderMessage(scene) ==
  CASE scene = "nomagic" -> "invalid index header"
    [] scene = "badtype" -> "invalid index type"
    [] OTHER -> "file contains no entries"

\* this step is hx_context_open of the file with the invalid index header
OpensBadHeader ==
  /\ scn.scene \in BadHeaderScenes
  /\ calls' = calls + 1
  /\ last'.op = "open"
  /\ last'.file = Buf(VersionName(Str_in, scn.v))

\* C4: reading a container whose index header is invalid fails with
\* InvalidHeader when the magic is wrong, otherwise InvalidIndexType when the
\* type is neither 1 nor 2, otherwise EmptyFile when the count is 0; the
\* error callback is invoked (once, with that message), the read returns
\* failure and the entries of the context are those before the call.
C4_InvalidIndexHeader ==
  [][OpensBadHeader =>
       /\ ret' = -1
       /\ errs' = <<HeaderMessage(scn.scene)>>
       /\ hx'.entries = hx.entries]_vars

\* such a read has happened on a context that held entries
C4_Witness ==
  /\ scn.scene \in BadHeaderScenes
  /\ last.op = "open"
  /\ last.file = Buf(VersionName(Str_in, scn.v))
  /\ ret = -1
  /\ Len(hx.entries) > 0

\* the extension of name (what follows its last '.') is, in any letter
\* case, the name of one of the six variants
NamesVariant(name) ==
  LET dot == strrchr(name, 46) IN
    /\ dot > 0
    /\ \E v \in Versions : Lower(Drop(name, dot)) = hx_version_table[v].name

\* one of the failures hx_context_open documents: a null filename, a file
\* the read callback has not, an extension that names no variant, or an
\* invalid index header
OpenFailure(f) ==
  \/ f.null
  \/ f.data \notin DOMAIN disk
  \/ ~NamesVariant(f.data)
  \/ (scn.scene \in BadHeaderScenes /\ f = Buf(VersionName(Str_in, scn.v)))

\* C5: hx_context_open returns 0 exactly when the file was loaded and -1 on
\* every failure: a null filename, a read callback that returns null, an
\* extension that names none of the six variants, an invalid index header.
C5_OpenStatus ==
  last.op = "open" =>
    /\ ret \in {0, -1}
    /\ OpenFailure(last.file) => ret = -1
    /\ (~OpenFailure(last.file) /\ last.file.data \in DOMAIN SceneDisk(scn.scene, scn.v))
         => ret = 0

\* an open of a name without a variant's extension has been refused
C5_Refused ==
  /\ last.op = "open" /\ ~last.file.null
  /\ last.file.data \in DOMAIN disk
  /\ ~NamesVariant(last.file.data)
  /\ ret = -1

\* the files whose second of three entries has a body that disagrees with
\* its index record, in the CUUID or in the class name
MismatchScenes == {"badcuuid", "badclass"}
MismatchMessage(scene) ==
  IF scene = "badcuuid" THEN "header cuuid does not match index cuuid"
  ELSE "header class name does not match index class name"

\* the last call was hx_context_open of such a file
OpenedMismatch ==
  /\ scn.scene \in MismatchScenes
  /\ last.op = "open"
  /\ last.file = Buf(VersionName(Str_in, scn.v))

\* C6: when an entry body's class name or CUUID disagrees with its index
\* record, the read invokes the error callback and short-circuits: no later
\* entry is parsed, the entries read before are retained, and the open
\* returns a failure status.
C6_ShortCircuit ==
  OpenedMismatch =>
    LET n == Len(hx.entries) IN
      /\ n >= 3
      /\ errs # <<>> /\ Head(errs) = MismatchMessage(scn.scene)
      /\ hx.entries[n - 2].p_data # NULL
      /\ hx.entries[n].p_data = NULL
      /\ ret = -1

\* what the read does: the error is reported and the entry before is kept,
\* and the loop goes on to the next record and the open succeeds
C6_Continues ==
  /\ OpenedMismatch
  /\ Head(errs) = MismatchMessage(scn.scene)
  /\ hx.entries[Len(hx.entries) - 2].p_data # NULL
  /\ hx.entries[Len(hx.entries) - 1].p_data = NULL
  /\ hx.entries[Len(hx.entries)].p_data # NULL
  /\ ret = 0

\* the file whose second of three index records names a class that is not
\* in the table (CFooBar), and what its third record holds
Record3 ==
  LET e == hx_version_table[scn.v].endianness
      items == SceneItems("unknown", scn.v)
  IN [i_class |-> HX_CLASS_EVENT_RESOURCE_DATA,
      i_cuuid |-> CUUID_E2,
      _file_offset |-> FromNat(4 + Len(FileEntry(e, items[1])) + Len(FileEntry(e, items[2]))),
      _file_size |-> FromNat(Len(FileEntry(e, items[3])))]

OpenedUnknown ==
  /\ scn.scene = "unknown"
  /\ last.op = "open"
  /\ last.file = Buf(VersionName(Str_in, scn.v))

\* the entry holds what its index record holds
HoldsRecord(entry, rec) ==
  /\ entry.i_class = rec.i_class
  /\ entry.i_cuuid = rec.i_cuuid
  /\ entry._file_offset = rec._file_offset
  /\ entry._file_size = rec._file_size

\* C7: an index record whose class name is not in the registry is skipped
\* with a warning and does not abort the read; every record after it is
\* parsed from its own first byte, so the later entry gets the class, CUUID,
\* file offset and file size of its own record.
C7_UnknownSkipped ==
  OpenedUnknown =>
    /\ ret = 0
    /\ errs # <<>>
    /\ HoldsRecord(hx.entries[Len(hx.entries)], Record3)

\* what the read does: no message of any kind, the record is kept as an
\* entry of class invalid, and the record after it is parsed in full
C7_Silent ==
  /\ OpenedUnknown
  /\ ret = 0 /\ errs = <<>>
  /\ hx.entries[Len(hx.entries) - 1].i_class = HX_CLASS_INVALID
  /\ HoldsRecord(hx.entries[Len(hx.entries)], Record3)

\* the earlier reader on the same file: it warns, and then takes the bytes
\* that follow the unknown name for the next record
C7_EarlierReader ==
  OpenedUnknown =>
    LET r == hx_read(stream_create(SceneFile("unknown", scn.v), Len(SceneFile("unknown", scn.v)),
                                   STREAM_MODE_READ, hx_version_table[scn.v].endianness),
                     scn.fill)
    IN /\ r.ret = 1
       /\ r.records[2].warned
       /\ ~HoldsRecord(r.records[3], Record3)

\* every WaveFileIdObj that a language link of a WavResData entry of h names
\* is called "<parent>_<LL>"
Named(h) ==
  \A i \in 1 .. Len(h.entries) :
    (h.entries[i].i_class = HX_CLASS_WAVE_RESOURCE_DATA /\ h.entries[i].p_data # NULL) =>
      \A l \in 1 .. Len(h.entries[i].p_data.links) :
        LET link == h.entries[i].p_data.links[l]
            k == hx_context_find_entry(h.entries, link.cuuid, 1)
        IN (k > 0 /\ h.entries[k].i_class = HX_CLASS_WAVE_FILE_ID_OBJECT
              /\ h.entries[k].p_data # NULL) =>
             h.entries[k].p_data.name
               = h.entries[i].p_data.res_data.name \o Str_Underscore
                   \o hx_language_name(link.language)

\* the last call opened the file of WavResData "Wr", whose link for "en"
\* names a WaveFileIdObj, and succeeded
OpenedGraph ==
  /\ scn.scene = "graph"
  /\ last.op = "open"
  /\ last.file = Buf(VersionName(Str_in, scn.v))
  /\ ret = 0 /\ errs = <<>>

\* C8: after a successful hx_context_open, for every WavResData entry and
\* every one of its language links, the WaveFileIdObj entry the link names
\* has the name "<parent>_<LL>", LL the link's language name.
C8_PostReadNaming == OpenedGraph => Named(hx)

\* what the open leaves: the linked WaveFileIdObj holds the bytes its
\* allocation held, not a name
C8_Unnamed ==
  /\ OpenedGraph
  /\ Len(hx.entries) = 3
  /\ hx.entries[2].p_data.links[1].cuuid = hx.entries[3].i_cuuid
  /\ hx.entries[3].p_data.name = UninitStr(scn.fill)

\* PostRead, were it called on the context the first open leaves, gives the
\* names
C8_PostReadNames ==
  (OpenedGraph /\ Len(hx.entries) = 3) =>
    LET c == PostRead(Running(scn.fill)) IN ~c.wild /\ Named(c.hx)

\* the 32-bit value that four bytes of a file hold in endianness e
Dec32(e, bytes) == IF e = HX_BIG_ENDIAN THEN bytes ELSE Reverse(bytes)

\* the file holds, at the index offset its first word gives in endianness
\* e, the index magic in endianness e
IndexIn(file, e) ==
  LET at == ToNat(Dec32(e, BufGet(file, 0, 4))) IN
    /\ at + 4 <= Len(file)
    /\ BufGet(file, at, 4) = Enc32(e, INDX)

\* the last call was a hx_context_write that reached the write callback
Wrote == last.op = "write" /\ last.hx2 = 0

\* C9: hx_context_write(hx, filename, V) writes the multi-byte fields in the
\* endianness of V (big for HXD/HXG/HXX, little for HXC/HX2/HX3), also when
\* V is not the variant of the file that was opened.
C9_WriteEndianness ==
  Wrote => IndexIn(disk[snap.file], hx_version_table[last.version].endianness)

\* a context opened from a file of one endianness has been written as a
\* variant of the other, and the output is in the endianness of the input
C9_KeepsReadEndianness ==
  /\ Wrote
  /\ hx_version_table[scn.v].endianness # hx_version_table[scn.t].endianness
  /\ IndexIn(disk[snap.file], hx_version_table[scn.v].endianness)
  /\ ~IndexIn(disk[snap.file], hx_version_table[scn.t].endianness)

(***************************************************************************)
(* hx_audio_convert on its own: one call on an input stream and an output  *)
(* stream whose info names the format asked for.                           *)
(***************************************************************************)
MaxBlocks == 3

AudioFormats == {HX_AUDIO_FORMAT_PCM, HX_AUDIO_FORMAT_UBI, HX_AUDIO_FORMAT_PSX,
                 HX_AUDIO_FORMAT_DSP, HX_AUDIO_FORMAT_IMA, HX_AUDIO_FORMAT_MP3}

AudioInfo(fmt, ch, e, n) ==
  [num_channels |-> ch, endianness |-> e, sample_rate |-> <<0, 0, 86, 34>>,
   num_samples |-> FromNat(n), fmt |-> fmt, wavefile_cuuid |-> CUUID_F1]

AudioIn(fmt, ch, e, n, bytes) ==
  [info |-> AudioInfo(fmt, ch, e, n), size |-> FromNat(Len(bytes)), data |-> Buf(bytes)]

\* the output stream the caller prepares: the format it wants, no data yet
AudioOut(want) ==
  [info |-> AudioInfo(want, 0, 0, 0), size |-> Word0, data |-> NULL]

\* PSX blocks of 16 bytes: the predictor/shift byte, the flags, 14 bytes of
\* nibbles. Predictors 0, 1 and 4 are legal, 5 is not; a block with shift 2
\* whose last nibble is 1 or 15 ends with the sample 1024 or -1024.
PsxBlockKinds ==
  {<<0, 0>> \o Zeros(14), <<2, 0>> \o Zeros(13) \o <<16>>, <<2, 0>> \o Zeros(13) \o <<240>>,
   <<16, 0>> \o Zeros(14), <<76, 0>> \o Zeros(13) \o <<113>>, <<80, 0>> \o Zeros(14)}

\* the blocks psx_decode looks at: whole frames of ch channels
Malformed(blocks, ch) ==
  \E k \in 1 .. (Len(blocks) \div ch) * ch : blocks[k][1] \div 16 > 4

PsxCases ==
  {[in |-> AudioIn(HX_AUDIO_FORMAT_PSX, ch, HX_LITTLE_ENDIAN, 0, Concat(blocks)),
    malformed |-> Malformed(blocks, ch)] :
     ch \in {1, 2}, blocks \in UNION {[1 .. n -> PsxBlockKinds] : n \in 1 .. MaxBlocks}}

\* DSP streams of ch channels with n samples each: a header for each channel
\* (num_samples, the rest zero), then the frames of 8 bytes a stream of that
\* many samples holds, each of predictor 0 and scale 2 with the nibbles
\* 1, 2, .. 7, -8, .. -2
DspFrame == <<1, 18, 52, 86, 120, 154, 188, 222>>
DspSampleCounts == {0, 1, 7, 14, 15}

DspCases ==
  {[in |-> AudioIn(HX_AUDIO_FORMAT_DSP, ch, HX_BIG_ENDIAN, n,
                   Concat([c \in 1 .. ch |-> FromNat(n) \o Zeros(DSP_HEADER_SIZE - 4)])
                     \o Concat([k \in 1 .. ch * ((n + DSP_SAMPLES_PER_FRAME - 1)
                                                   \div DSP_SAMPLES_PER_FRAME) |-> DspFrame])),
    malformed |-> FALSE] : ch \in {1, 2}, n \in DspSampleCounts}

\* A DSP header for n samples with coefficients and histories: the pairs of
\* predictor 0, 1 and 2 are (0, 0), (1, 0) and (0, 1), c[i] = i from i = 6 on;
\* gain 3, ps 0, hst1 20480, hst2 10240, loop_ps 5, loop_hst1 6, loop_hst2 7
DspHistoryHeader(n) ==
  FromNat(n) \o Zeros(24)
    \o <<0, 0, 0, 0, 0, 1, 0, 0, 0, 0, 0, 1>>
    \o Concat([i \in 1 .. 10 |-> <<0, i + 5>>])
    \o <<0, 3, 0, 0, 80, 0, 40, 0, 0, 5, 0, 6, 0, 7>> \o Zeros(22)

\* the first bytes of the frames behind the first one: predictors 7, 8, 11,
\* 12 and 15 with scale 2^12
DspLaterFrames == {124, 140, 188, 204, 252}
DspFirstFrames == {28, 44}

\* DSP streams of ch channels with that header and n samples each: the
\* first frame of a channel has predictor 1 or 2 and scale 2^12, the later
\* ones one of DspLaterFrames
DspHistoryCases ==
  {[in |-> AudioIn(HX_AUDIO_FORMAT_DSP, ch, HX_BIG_ENDIAN, n,
                   Concat([c \in 1 .. ch |-> DspHistoryHeader(n)])
                     \o Concat([k \in 1 .. ch * ((n + DSP_SAMPLES_PER_FRAME - 1)
                                                   \div DSP_SAMPLES_PER_FRAME) |->
                                 <<IF k <= ch THEN first ELSE later>> \o Tail(DspFrame)])),
    malformed |-> FALSE] :
     ch \in {1, 2}, n \in {1, 15}, first \in DspFirstFrames, later \in DspLaterFrames}

PcmCases ==
  {[in |-> AudioIn(HX_AUDIO_FORMAT_PCM, ch, HX_LITTLE_ENDIAN, n, Zeros(2 * n * ch)),
    malformed |-> FALSE] : ch \in {1, 2}, n \in {0, 1, 14, 15}}

OtherCases ==
  {[in |-> AudioIn(fmt, 1, HX_LITTLE_ENDIAN, 2, PcmData), malformed |-> FALSE] :
     fmt \in {HX_AUDIO_FORMAT_UBI, HX_AUDIO_FORMAT_IMA, HX_AUDIO_FORMAT_MP3}}

AudioCases == PsxCases \cup DspCases \cup DspHistoryCases \cup PcmCases \cup OtherCases

InitAudio ==
  /\ \E case \in AudioCases, want \in AudioFormats, fill \in {0, 170} :
       audio = [done |-> FALSE, want |-> want, ret |-> 0, in |-> case.in,
                malformed |-> case.malformed, out |-> AudioOut(want), fill |-> fill,
                wild |-> FALSE, over |-> FALSE, ps_at |-> <<>>, c_at |-> <<>>]
  /\ s = stream_create(<<>>, 0, STREAM_MODE_READ, HX_NATIVE_ENDIAN)
  /\ val = None /\ lastw = None /\ nops = 0
  /\ hx = NULL /\ disk = <<>> /\ ret = 0 /\ errs = <<>>
  /\ flags = [abort |-> FALSE, wild |-> FALSE]
  /\ last = [op |-> "none"] /\ snap = NULL /\ scn = [scene |-> "none"] /\ calls = 0
  /\ call = NoCall

\* the call has returned r
AudioAfter(r) ==
  [audio EXCEPT !.out = r.out, !.ret = r.ret, !.done = TRUE, !.wild = r.wild,
                !.over = r.over, !.ps_at = r.ps_at, !.c_at = r.c_at]

\* the client calls hx_audio_convert(&in, &out)
AudioConvert ==
  /\ ~audio.done
  /\ audio' = AudioAfter(hx_audio_convert(audio.in, audio.out, audio.fill))
  /\ UNCHANGED streamVars
  /\ UNCHANGED contVars
  /\ UNCHANGED callVars

NextAudio == AudioConvert

SpecAudio == InitAudio /\ [][NextAudio]_vars

\* the four conversions hx_audio_convert has
Supported(got, wanted) ==
  <<got, wanted>> \in {<<HX_AUDIO_FORMAT_PCM, HX_AUDIO_FORMAT_PCM>>,
                       <<HX_AUDIO_FORMAT_DSP, HX_AUDIO_FORMAT_PCM>>,
                       <<HX_AUDIO_FORMAT_PSX, HX_AUDIO_FORMAT_PCM>>,
                       <<HX_AUDIO_FORMAT_PCM, HX_AUDIO_FORMAT_DSP>>}

\* C10: hx_audio_convert returns 1 for every successful conversion (PCM to
\* PCM, DSP to PCM, PSX to PCM, PCM to DSP), 0 when the encoder or decoder
\* fails on its input, and -1 exactly when the pair of formats is not one of
\* those four.
C10_ConvertStatus ==
  audio.done =>
    IF Supported(audio.in.info.fmt, audio.want)
      THEN audio.ret = (IF audio.malformed THEN 0 ELSE 1)
      ELSE audio.ret = -1

\* what the call returns: 0 for the PCM copy and for the DSP encoder's
\* success, -1 for a PSX stream the decoder rejects
C10_Returns ==
  /\ audio.done
  /\ \/ /\ audio.in.info.fmt = HX_AUDIO_FORMAT_PCM /\ audio.want = HX_AUDIO_FORMAT_PCM
        /\ audio.out = audio.in /\ audio.ret = 0
     \/ /\ audio.in.info.fmt = HX_AUDIO_FORMAT_PCM /\ audio.want = HX_AUDIO_FORMAT_DSP
        /\ audio.out.info.fmt = HX_AUDIO_FORMAT_DSP /\ audio.ret = 0
     \/ /\ audio.in.info.fmt = HX_AUDIO_FORMAT_PSX /\ audio.want = HX_AUDIO_FORMAT_PCM
        /\ audio.malformed /\ audio.ret = -1

\* the returns that agree with the claim: 1 from the two decoders, -1 for a
\* pair that is not supported
C10_Agrees ==
  audio.done =>
    /\ (audio.in.info.fmt \in {HX_AUDIO_FORMAT_DSP, HX_AUDIO_FORMAT_PSX}
          /\ audio.want = HX_AUDIO_FORMAT_PCM /\ ~audio.malformed) => audio.ret = 1
    /\ ~Supported(audio.in.info.fmt, audio.want) => audio.ret = -1


(***************************************************************************)
(* The decoders: what a call of hx_audio_convert that decoded has left.    *)
(***************************************************************************)
DspDecoded ==
  /\ audio.done
  /\ audio.in.info.fmt = HX_AUDIO_FORMAT_DSP /\ audio.want = HX_AUDIO_FORMAT_PCM

PsxDecoded ==
  /\ audio.done
  /\ audio.in.info.fmt = HX_AUDIO_FORMAT_PSX /\ audio.want = HX_AUDIO_FORMAT_PCM

\* num_samples in the header of channel c (0 ..) of a big-endian DSP stream
HeaderSamples(in, c) == ToNat(BufGet(in.data.data, c * DSP_HEADER_SIZE, 4))

\* every channel of the stream carries n samples
EachCarries(in, n) ==
  \A c \in 0 .. in.info.num_channels - 1 : HeaderSamples(in, c) = n

FullFrames(n) == (n + DSP_SAMPLES_PER_FRAME - 1) \div DSP_SAMPLES_PER_FRAME

\* C11: decoding a DSP stream of `channels` channels that carry n samples each
\* leaves an output buffer of exactly ceil(n / 14) * 14 * channels * 2 bytes.
C11_FrameSizing ==
  DspDecoded =>
    \A n \in DspSampleCounts :
      EachCarries(audio.in, n) =>
        ToNat(audio.out.size)
          = FullFrames(n) * DSP_SAMPLES_PER_FRAME * audio.in.info.num_channels * 2

\* two channels of 7 samples each: out->size is 28, the size of one frame of
\* one channel, where the claim has 56
C11_SizedFromSum ==
  /\ DspDecoded /\ audio.ret = 1
  /\ audio.in.info.num_channels = 2 /\ EachCarries(audio.in, 7)
  /\ ToNat(audio.out.size) = 28
  /\ Len(audio.out.data.pcm) = 14


\* C12: for a mono DSP stream whose header gives n samples, n not a multiple
\* of 14, the decoded output holds ceil(n / 14) * 14 samples and every sample
\* at a position n or later is zero.
C12_PartialFrameZeroed ==
  (DspDecoded /\ audio.in.info.num_channels = 1) =>
    \A n \in DspSampleCounts :
      (n % DSP_SAMPLES_PER_FRAME # 0 /\ EachCarries(audio.in, n)) =>
        /\ Len(audio.out.data.pcm) = FullFrames(n) * DSP_SAMPLES_PER_FRAME
        /\ \A k \in n + 1 .. Len(audio.out.data.pcm) : audio.out.data.pcm[k] = 0

\* one channel of 7 samples: 14 samples are allocated, the decoder stores the
\* first 7, and the last 7 hold what the memory malloc returned held
C12_TailNotWritten ==
  /\ DspDecoded /\ audio.ret = 1
  /\ audio.in.info.num_channels = 1 /\ EachCarries(audio.in, 7)
  /\ ToNat(audio.out.size) = 28
  /\ SubSeq(audio.out.data.pcm, 1, 7) = <<2, 4, 6, 8, 10, 12, 14>>
  /\ audio.fill # 0
  /\ \A k \in 8 .. 14 : audio.out.data.pcm[k] = UninitShort(audio.fill)


PsxRecurrenceFrame(b, h) ==
  /\ PsxDecoded /\ audio.ret = 1 /\ audio.in.info.num_channels = 1
  /\ b >= 1 /\ (b + 1) * PSX_BYTES_PER_FRAME <= ToNat(audio.in.size)
  /\ BufGet(audio.in.data.data, b * PSX_BYTES_PER_FRAME, PSX_BYTES_PER_FRAME)
       = <<16, 0>> \o Zeros(PSX_SAMPLE_BYTES_PER_FRAME)
  /\ audio.out.data.pcm[b * PSX_SAMPLES_PER_FRAME] = h
  /\ audio.out.data.pcm[b * PSX_SAMPLES_PER_FRAME - 1] = 0

\* sample k (1 .. 28) of block b in the output of a mono stream
PsxSampleOf(b, k) == audio.out.data.pcm[b * PSX_SAMPLES_PER_FRAME + k]

\* x * 0.9375 without its fraction, and as the nearest integer
Dropped(x) == IF x >= 0 THEN (15 * x) \div 16 ELSE -((15 * (-x)) \div 16)
Rounded(x) == IF x >= 0 THEN (15 * x + 8) \div 16 ELSE -((15 * (-x) + 8) \div 16)

PsxHistories == {0, 1024, -1024}

\* C14 as stated: for such a frame the first sample is h * 0.9375 brought into
\* the int16 range, and each later sample of the frame is the sample before it
\* times 0.9375, rounded.
C14_AsStated ==
  \A b \in 1 .. MaxBlocks - 1, h \in PsxHistories :
    PsxRecurrenceFrame(b, h) =>
      /\ PsxSampleOf(b, 1) = Clamp16(Dropped(h))
      /\ \A k \in 2 .. PSX_SAMPLES_PER_FRAME :
            PsxSampleOf(b, k) = Rounded(PsxSampleOf(b, k - 1))

\* C14: for a frame of predictor 1, shift 0 and all-zero nibbles decoded from
\* hst1 = h and hst2 = 0, the first sample is h * 0.9375 with its fraction
\* dropped, brought into the int16 range, and each later sample of the frame
\* is the sample before it times 0.9375 with the fraction dropped (towards 0).
C14_Recurrence ==
  \A b \in 1 .. MaxBlocks - 1, h \in PsxHistories :
    PsxRecurrenceFrame(b, h) =>
      /\ PsxSampleOf(b, 1) = Clamp16(Dropped(h))
      /\ \A k \in 2 .. PSX_SAMPLES_PER_FRAME :
            PsxSampleOf(b, k) = Dropped(PsxSampleOf(b, k - 1))

\* the frame decoded from h = -1024: -960, -900, then -843 (-843.75 without
\* its fraction) and -790
C14_Witness ==
  /\ PsxRecurrenceFrame(1, -1024)
  /\ <<PsxSampleOf(1, 1), PsxSampleOf(1, 2), PsxSampleOf(1, 3), PsxSampleOf(1, 4)>>
       = <<-960, -900, -843, -790>>


\* the last n bytes of a file
LastBytes(file, n) == SubSeq(file, Len(file) - n + 1, Len(file))

\* C15: every buffer hx_context_write hands to the write callback for the
\* variant HXG or HX2 ends with 32 bytes that are all zero.
C15_ZeroPadding ==
  (Wrote /\ last.version \in {HX_VERSION_HXG, HX_VERSION_HX2}) =>
    /\ Len(disk[snap.file]) >= 32
    /\ LastBytes(disk[snap.file], 32) = Zeros(32)

\* a file written as HXG or HX2 ends with the 32 characters of the text
\* "This file was written by libhx2." and the zero bytes that bring its size
\* to a multiple of 16
C15_EndsWithInfo ==
  /\ Wrote /\ last.version \in {HX_VERSION_HXG, HX_VERSION_HX2}
  /\ Len(disk[snap.file]) % 16 = 0
  /\ \E pad \in 0 .. 15 :
       LastBytes(disk[snap.file], 32 + pad) = Str_WrittenBy \o Zeros(pad)


(***************************************************************************)
(* Routines of the library called on their own.                            *)
(*   op "name": hx_class_name(class, version) forms a name, which          *)
(*   hx_class_from_string then takes; op "parse": hx_class_from_string is  *)
(*   called on a name that was put together by hand.                       *)
(***************************************************************************)
Idle ==
  /\ s = stream_create(<<>>, 0, STREAM_MODE_READ, HX_NATIVE_ENDIAN)
  /\ val = None /\ lastw = None /\ nops = 0
  /\ hx = NULL /\ disk = <<>> /\ ret = 0 /\ errs = <<>>
  /\ flags = [abort |-> FALSE, wild |-> FALSE]
  /\ last = [op |-> "none"] /\ snap = NULL /\ scn = [scene |-> "none"] /\ calls = 0
  /\ audio = NoAudio

PlatformTags == {<<>>, Str_PC, Str_GC, Str_PS2, Str_PS3, Str_XBox}

\* names with no, one or two platform tags, with and without the leading C
HandNames ==
  {lead \o a \o b \o hx_class_table[c].name :
     lead \in {<<>>, Str_C}, a \in PlatformTags, b \in PlatformTags, c \in Classes}

InitCalls ==
  /\ Idle
  /\ \/ \E c \in Classes, v \in Versions :
          call = [op |-> "name", step |-> 0, class |-> c, version |-> v,
                  name |-> <<>>, parsed |-> HX_CLASS_INVALID]
     \/ \E n \in HandNames :
          call = [op |-> "parse", step |-> 1, class |-> HX_CLASS_INVALID,
                  version |-> HX_VERSION_INVALID, name |-> n, parsed |-> HX_CLASS_INVALID]

\* hx_class_name(class, version, buf, HX_STRING_MAX_LENGTH)
ClassName ==
  /\ call.op = "name" /\ call.step = 0
  /\ call' = [call EXCEPT !.step = 1, !.name = hx_class_name(call.class, call.version)]
  /\ UNCHANGED streamVars
  /\ UNCHANGED contVars
  /\ UNCHANGED audioVars

\* hx_class_from_string(buf)
ClassFromString ==
  /\ call.op \in {"name", "parse"} /\ call.step = 1
  /\ call' = [call EXCEPT !.step = 2, !.parsed = hx_class_from_string(call.name)]
  /\ UNCHANGED streamVars
  /\ UNCHANGED contVars
  /\ UNCHANGED audioVars

NextCalls == ClassName \/ ClassFromString

SpecCalls == InitCalls /\ [][NextCalls]_vars

\* the sequence tag occurs in name
Contains(name, tag) ==
  \E i \in 0 .. Len(name) - Len(tag) : SubSeq(name, i + 1, i + Len(tag)) = tag

\* C16: for each of the six classes c and each of the six variants v,
\* hx_class_from_string(hx_class_name(c, v)) = c, and the name formed holds
\* the platform tag of v exactly when c is WavResData or WaveFileIdObj.
C16_ClassNameRoundTrip ==
  (call.op = "name" /\ call.step = 2) =>
    /\ call.parsed = call.class
    /\ Contains(call.name, hx_version_table[call.version].platform)
         <=> call.class \in {HX_CLASS_WAVE_RESOURCE_DATA, HX_CLASS_WAVE_FILE_ID_OBJECT}

\* CPS3WaveFileIdObj, formed for HX3, has been read back as WaveFileIdObj
C16_Witness ==
  /\ call.op = "name" /\ call.step = 2
  /\ call.class = HX_CLASS_WAVE_FILE_ID_OBJECT /\ call.version = HX_VERSION_HX3
  /\ call.name = Str_C \o Str_PS3 \o Str_WaveFileIdObj
  /\ call.parsed = HX_CLASS_WAVE_FILE_ID_OBJECT


\* the entries of the context that have the CUUID c, by their place
EntriesWith(c) == {i \in 1 .. Len(hx.entries) : hx.entries[i].i_cuuid = c}

\* C17: after any sequence of opens, hx_context_find_entry(c) returns the
\* first entry in sequence order whose CUUID equals c, and NULL exactly when
\* no entry of the context has the CUUID c.
C17_FindsFirst ==
  last.op = "find" =>
    /\ last.found = 0 <=> EntriesWith(last.cuuid) = {}
    /\ last.found # 0 =>
         /\ last.found \in EntriesWith(last.cuuid)
         /\ \A i \in EntriesWith(last.cuuid) : last.found <= i

\* the same file has been opened twice, two entries have the CUUID looked
\* for, and the call has returned the one that comes first
C17_Witness ==
  /\ last.op = "find" /\ last.cuuid = CUUID_W1
  /\ last.found \in EntriesWith(CUUID_W1)
  /\ \E i \in EntriesWith(CUUID_W1) : last.found < i


(***************************************************************************)
(* A written container, taken apart by the layout of the file: the word at *)
(* 0, the index header at the offset it gives, the index records behind    *)
(* the header.                                                             *)
(***************************************************************************)
\* the 32-bit number at a position of the file, in the endianness e
NumAt(file, at, e) == ToNat(Dec32(e, BufGet(file, at, 4)))

\* a count read from the file; one above the length of the file leads behind
\* its end as the length does
CountAt(file, at, e) ==
  IF NumAt(file, at, e) > Len(file) THEN Len(file) ELSE NumAt(file, at, e)

\* the endianness the last hx_context_write wrote in: that of the stream the
\* context held
WrittenIn == snap.stream.endianness

\* the index record that starts at a position: the length of the class name,
\* the name, the CUUID, the file offset and size, the reserved word, the
\* links; next: the position behind the record
IndexRecordAt(file, at, e) ==
  LET len == CountAt(file, at, e)
      num_links == CountAt(file, at + len + 24, e)
      num_languages == CountAt(file, at + len + 28 + 8 * num_links, e)
  IN [at |-> at, name |-> BufGet(file, at + 4, len),
      cuuid |-> Dec32(e, BufGet(file, at + len + 4, 4))
                  \o Dec32(e, BufGet(file, at + len + 8, 4)),
      offset |-> NumAt(file, at + len + 12, e),
      size |-> NumAt(file, at + len + 16, e),
      next |-> at + len + 32 + 8 * num_links + 16 * num_languages]

\* n index records from a position on
RECURSIVE IndexRecordsFrom(_, _, _, _)
IndexRecordsAfter(file, rec, e, n) == <<rec>> \o IndexRecordsFrom(file, rec.next, e, n - 1)

IndexRecordsFrom(file, at, e, n) ==
  IF n = 0 \/ at >= Len(file) THEN <<>>
  ELSE IndexRecordsAfter(file, IndexRecordAt(file, at, e), e, n)

\* the index records of the file the last hx_context_write wrote
WrittenRecords ==
  IndexRecordsFrom(disk[snap.file], NumAt(disk[snap.file], 0, WrittenIn) + 12, WrittenIn,
                   NumAt(disk[snap.file], NumAt(disk[snap.file], 0, WrittenIn) + 8, WrittenIn))

\* C18: in every written container each index record's file offset is the
\* position of the output buffer at which the body of that entry was written,
\* and its file size is the number of bytes the body takes there, so that at
\* the recorded offset lies the class-name length of that same entry.
C18_RecordsPointAtBodies ==
  Wrote =>
    /\ Len(WrittenRecords) = Len(snap.bodies)
    /\ \A i \in 1 .. Len(snap.bodies) :
         /\ WrittenRecords[i].offset = snap.bodies[i].at
         /\ WrittenRecords[i].size = snap.bodies[i].moved
         /\ NumAt(disk[snap.file], WrittenRecords[i].offset, WrittenIn)
              = Len(WrittenRecords[i].name)

\* a written container with an index record that holds the offset and size
\* the entry had in the file it was read from, which are not the place and
\* size of the body in this file
C18_StaleOffsets ==
  /\ Wrote
  /\ Len(WrittenRecords) = Len(snap.bodies) /\ Len(snap.before) = Len(snap.bodies)
  /\ \E i \in 1 .. Len(snap.bodies) :
       /\ WrittenRecords[i].offset = ToNat(snap.before[i]._file_offset)
       /\ WrittenRecords[i].size = ToNat(snap.before[i]._file_size)
       /\ WrittenRecords[i].offset # snap.bodies[i].at
       /\ WrittenRecords[i].size # snap.bodies[i].moved

(***************************************************************************)
(* The index of a written container.                                       *)
(***************************************************************************)
\* the word at bytes 0-3 of the written file
IndexOffset == NumAt(disk[snap.file], 0, WrittenIn)
\* the position right after the last entry body
BodiesEnd == snap.bodies[Len(snap.bodies)].at + snap.bodies[Len(snap.bodies)].moved
\* record i of the written index is the record of entry i the context held
RecordOfEntry(i) ==
  /\ WrittenRecords[i].cuuid = snap.before[i].i_cuuid
  /\ WrittenRecords[i].name = hx_class_name(snap.before[i].i_class, last.version)
\* the index type the last file opened carried
IndexTypeRead == NumAt(disk[VersionName(Str_in, scn.v)],
                       NumAt(disk[VersionName(Str_in, scn.v)], 0,
                             hx_version_table[scn.v].endianness) + 4,
                       hx_version_table[scn.v].endianness)

\* C19: in every written container the word at bytes 0-3 is the position
\* right after the last entry body; the index magic 0x58444E49 is stored at
\* that position, followed by index type 2 (whatever index type was read)
\* and the entry count, followed by one index record per entry in the
\* context's entry order.
C19_IndexLayout ==
  Wrote =>
    /\ Len(snap.bodies) = Len(snap.before)
    /\ IndexOffset = BodiesEnd
    /\ Dec32(WrittenIn, BufGet(disk[snap.file], IndexOffset, 4)) = INDX
    /\ NumAt(disk[snap.file], IndexOffset + 4, WrittenIn) = 2
    /\ NumAt(disk[snap.file], IndexOffset + 8, WrittenIn) = Len(snap.before)
    /\ Len(WrittenRecords) = Len(snap.before)
    /\ \A i \in 1 .. Len(snap.before) : RecordOfEntry(i)
    /\ \A i \in 1 .. Len(WrittenRecords) - 1 :
         WrittenRecords[i + 1].at = WrittenRecords[i].next

\* a context of several entries read from a file with index type 1 has
\* been written
C19_Witness ==
  /\ Wrote
  /\ scn.scene = "type1"
  /\ IndexTypeRead = 1
  /\ Len(snap.before) > 1
  /\ IndexOffset = BodiesEnd /\ IndexOffset > 4
  /\ NumAt(disk[snap.file], IndexOffset + 4, WrittenIn) = 2

(***************************************************************************)
(* The post-read pass called on its own: on the context that an open of a  *)
(* small container leaves, once and once more (op "post").                 *)
(***************************************************************************)
CUUID_W2 == <<0, 0, 0, 2, 0, 0, 0, 35>>
Str_Eu == <<69, 117>>                      \* "Eu"
Str_Ws == <<87, 115>>                      \* "Ws"
MaxPasses == 2
PostVersions == {HX_VERSION_HXG, HX_VERSION_HXC}

\* an event, a WavResData and its WaveFileIdObj; the same with a second
\* event on the WavResData; the same with a second WavResData on the
\* WaveFileIdObj; an event whose WavResData is not in the file; a WavResData
\* whose WaveFileIdObj is not in the file; a WavResData whose language link
\* names the event
PostItemSets(v) ==
  LET link == <<[code |-> Code_en, unknown |-> Word0, cuuid |-> CUUID_F1]>>
      E1 == EventItem(v, CUUID_E1, Str_Ev, CUUID_W1)
      E2 == EventItem(v, CUUID_E2, Str_Eu, CUUID_W1)
      W1 == WavResItem(v, CUUID_W1, Str_Wr, link)
      W2 == WavResItem(v, CUUID_W2, Str_Ws, link)
      F1 == WaveFileItem(v, CUUID_F1)
      W3 == WavResItem(v, CUUID_W1, Str_Wr,
                       <<[code |-> Code_en, unknown |-> Word0, cuuid |-> CUUID_E1]>>)
  IN {<<E1, W1, F1>>, <<E1, E2, W1, F1>>, <<E1, W1, W2, F1>>,
      <<E1, F1>>, <<E1, W1>>, <<E1, W3>>}

\* the sequence q in the order p
Permuted(q, p) == [i \in 1 .. Len(q) |-> q[p[i]]]
Orders(q) == {Permuted(q, p) : p \in Permutations(1 .. Len(q))}

PostFiles(v) ==
  {FileOf(v, items, GoodHead(Len(items)), 2) :
     items \in UNION {Orders(q) : q \in PostItemSets(v)}}

InitPost ==
  /\ s = stream_create(<<>>, 0, STREAM_MODE_READ, HX_NATIVE_ENDIAN)
  /\ val = None /\ lastw = None /\ nops = 0
  /\ \E v \in PostVersions :
       /\ scn = [scene |-> "post", v |-> v, t |-> v, fill |-> 0]
       /\ \E file \in PostFiles(v) : disk = (VersionName(Str_in, v) :> file)
  /\ hx = ReadOf(disk, VersionName(Str_in, scn.v)).c.hx
  /\ ret = 0 /\ errs = <<>>
  /\ flags = [abort |-> FALSE, wild |-> FALSE]
  /\ last = [op |-> "none"] /\ snap = NULL /\ calls = 0
  /\ audio = NoAudio
  /\ call = [op |-> "post", passes |-> 0, read |-> hx.entries, once |-> <<>>]

\* the client's variables after PostRead(hx) has returned r
PostReadDone(r) ==
  /\ hx' = r.hx
  /\ flags' = [abort |-> r.abort, wild |-> r.wild]
  /\ call' = [call EXCEPT !.passes = @ + 1,
                          !.once = IF call.passes = 0 THEN r.hx.entries ELSE @]

PostReadPass ==
  /\ call.op = "post" /\ call.passes < MaxPasses
  /\ PostReadDone(PostRead(Running(scn.fill)))
  /\ UNCHANGED <<disk, ret, errs, last, snap, scn, calls>>
  /\ UNCHANGED streamVars
  /\ UNCHANGED audioVars

NextPost == PostReadPass

SpecPost == InitPost /\ [][NextPost]_vars

\* the names the passes assign: of every WavResData and WaveFileIdObj, by
\* the entry's CUUID
PostNames(entries) ==
  {<<entries[i].i_cuuid, entries[i].p_data.res_data.name>> :
     i \in {j \in 1 .. Len(entries) : entries[j].i_class = HX_CLASS_WAVE_RESOURCE_DATA}}
  \cup
  {<<entries[i].i_cuuid, entries[i].p_data.name>> :
     i \in {j \in 1 .. Len(entries) : entries[j].i_class = HX_CLASS_WAVE_FILE_ID_OBJECT}}

\* the names one pass gives when the entries that were read stand in order p
NamesInOrder(p) ==
  PostNames(PostRead([Running(scn.fill) EXCEPT !.hx.entries = Permuted(call.read, p)]).hx.entries)

\* C20: both post-read passes are idempotent and order-independent: running
\* the pass twice gives the same names as running it once, and the names
\* are the same for every permutation of the entry sequence.
C20_IdempotentAnyOrder ==
  (call.op = "post" /\ call.passes >= 1) =>
    /\ PostNames(hx.entries) = PostNames(call.once)
    /\ \A p \in Permutations(1 .. Len(call.read)) : NamesInOrder(p) = PostNames(call.once)

\* one pass has run on an HXG context in which two events link the same
\* WavResData: the WavResData has the name of the event that stands later,
\* and with the two events exchanged it gets the other name
C20_LaterEntryWins ==
  /\ call.op = "post" /\ call.passes = 1 /\ ~flags.wild
  /\ scn.v = HX_VERSION_HXG /\ Len(hx.entries) = 4
  /\ \E i, j, k \in 1 .. 4 :
       /\ i < j
       /\ hx.entries[i].i_class = HX_CLASS_EVENT_RESOURCE_DATA
       /\ hx.entries[j].i_class = HX_CLASS_EVENT_RESOURCE_DATA
       /\ hx.entries[i].p_data.link = hx.entries[k].i_cuuid
       /\ hx.entries[j].p_data.link = hx.entries[k].i_cuuid
       /\ hx.entries[i].p_data.name # hx.entries[j].p_data.name
       /\ hx.entries[k].p_data.res_data.name = hx.entries[j].p_data.name
       /\ \E p \in Permutations(1 .. 4) :
            /\ p[i] = j /\ p[j] = i
            /\ <<hx.entries[k].i_cuuid, hx.entries[i].p_data.name>> \in NamesInOrder(p)

(***************************************************************************)
(* The DSP decoder against the recurrence over the stream's bytes.         *)
(***************************************************************************)
\* a short of the header of channel c (0 ..) of a big-endian DSP stream
HeaderShort(in, c, offset) == Int16(BufGet(in.data.data, c * DSP_HEADER_SIZE + offset, 2))
\* where frame i of channel c starts when every frame has 8 bytes
FrameAt(in, i, c) ==
  in.info.num_channels * DSP_HEADER_SIZE + (i * in.info.num_channels + c) * DSP_BYTES_PER_FRAME
InByte(in, at) == BufGet(in.data.data, at, 1)[1]
\* the nibble of sample k of the frame at position at, sign-extended
SignedNibble(in, at, k) ==
  LET b == InByte(in, at + 1 + k \div 2)
      nibble == IF k % 2 = 0 THEN b \div 16 ELSE b % 16
  IN IF nibble >= 8 THEN nibble - 16 ELSE nibble
\* sample m of channel c by the recurrence, after the samples hst1 and hst2
Recurrence(in, c, m, hst1, hst2) ==
  LET at == FrameAt(in, m \div DSP_SAMPLES_PER_FRAME, c)
      predictor == InByte(in, at) \div 16
  IN Clamp16(((2 ^ (InByte(in, at) % 16)) * SignedNibble(in, at, m % DSP_SAMPLES_PER_FRAME) * 2048
                + 1024 + HeaderShort(in, c, 28 + 4 * predictor) * hst1
                + HeaderShort(in, c, 30 + 4 * predictor) * hst2) \div 2048)
\* the samples m .. n - 1 of channel c by the recurrence
RECURSIVE RecurrenceFrom(_, _, _, _, _, _)
RecurrenceAfter(in, c, m, n, hst1, sample) ==
  <<sample>> \o RecurrenceFrom(in, c, m + 1, n, sample, hst1)
RecurrenceFrom(in, c, m, n, hst1, hst2) ==
  IF m >= n THEN <<>>
  ELSE RecurrenceAfter(in, c, m, n, hst1, Recurrence(in, c, m, hst1, hst2))
\* the samples of channel c as the recurrence gives them from the header's
\* two history samples
RecurrenceOf(in, c) ==
  RecurrenceFrom(in, c, 0, HeaderSamples(in, c), HeaderShort(in, c, 64), HeaderShort(in, c, 66))
\* every frame the stream holds selects a pair inside the 16 coefficients
PairsInHeader(in) ==
  \A c \in 0 .. in.info.num_channels - 1 :
    \A i \in 0 .. ((HeaderSamples(in, c) + DSP_SAMPLES_PER_FRAME - 1)
                     \div DSP_SAMPLES_PER_FRAME) - 1 :
      InByte(in, FrameAt(in, i, c)) \div 16 < 8
\* the output index of sample m of channel c
OutIndex(in, c, m) ==
  (m \div DSP_SAMPLES_PER_FRAME) * DSP_SAMPLES_PER_FRAME * in.info.num_channels
    + (m % DSP_SAMPLES_PER_FRAME) * in.info.num_channels + c

\* C21: for every channel, each sample dsp_decode emits equals
\* clamp(((scale * s) * 2048 + 1024 + c1*hst1 + c2*hst2) >> 11), s the
\* sign-extended nibble, scale = 1 << (ps & 0xF), (c1, c2) the pair of the
\* frame's predictor, hst1 and hst2 the channel's two samples before it,
\* for the first frame the two history samples of the channel's header; it
\* is stored at output index frame*14*channels + n*channels + c.
C21_DspRecurrence ==
  (DspDecoded /\ PairsInHeader(audio.in)) =>
    \A c \in 0 .. audio.in.info.num_channels - 1 :
      \A m \in 0 .. HeaderSamples(audio.in, c) - 1 :
        /\ OutIndex(audio.in, c, m) < Len(audio.out.data.pcm)
        /\ audio.out.data.pcm[OutIndex(audio.in, c, m) + 1] = RecurrenceOf(audio.in, c)[m + 1]

\* a one-channel stream of one sample whose header has hst1 = 20480 and the
\* pair (1, 0) for the frame's predictor 1: the recurrence gives 4096 + 10,
\* the decoder the sample that the never assigned history1 leads to
C21_HistoryNotFromHeader ==
  /\ DspDecoded
  /\ audio.in.info.num_channels = 1 /\ HeaderSamples(audio.in, 0) = 1
  /\ HeaderShort(audio.in, 0, 64) = 20480
  /\ InByte(audio.in, FrameAt(audio.in, 0, 0)) = 28
  /\ RecurrenceOf(audio.in, 0) = <<4106>>
  /\ audio.out.data.pcm[1] = Clamp16((4096 * 2048 + 1024 + UninitInt(audio.fill)) \div 2048)
  /\ audio.out.data.pcm[1] # 4106

\* the frames channel c holds: those its num_samples samples take
FramesOf(in, c) ==
  (HeaderSamples(in, c) + DSP_SAMPLES_PER_FRAME - 1) \div DSP_SAMPLES_PER_FRAME

\* C22: DSP frames are 8 bytes each: the predictor-scaler byte dsp_decode
\* uses for frame i of channel c is the source byte at offset
\* channels*96 + (i*channels + c)*8, for every frame and channel, also when
\* the frame holds fewer than 14 remaining samples.
C22_FrameOffsets ==
  DspDecoded =>
    \A c \in 0 .. audio.in.info.num_channels - 1 :
      \A i \in 0 .. FramesOf(audio.in, c) - 1 :
        /\ i * audio.in.info.num_channels + c + 1 <= Len(audio.ps_at)
        /\ audio.ps_at[i * audio.in.info.num_channels + c + 1] = FrameAt(audio.in, i, c)

\* a stream of two channels with 15 samples each: the second frame of the
\* first channel has one sample, behind which src has moved on by one byte
\* only, and the second channel's frame is taken to start there
C22_ShortFrameStep ==
  /\ DspDecoded
  /\ audio.in.info.num_channels = 2 /\ EachCarries(audio.in, 15)
  /\ Len(audio.ps_at) >= 4
  /\ audio.ps_at[3] = FrameAt(audio.in, 1, 0)
  /\ audio.ps_at[4] = FrameAt(audio.in, 1, 0) + 1
  /\ audio.ps_at[4] # FrameAt(audio.in, 1, 1)

(***************************************************************************)
(* WavResData with several links and a default CUUID.                      *)
(***************************************************************************)
\* the entries of a context that are a WavResData with the multiple bit
\* (0x02) in its flags and a default CUUID other than zero
DefaultedWavResData(entries) ==
  {i \in 1 .. Len(entries) :
     /\ entries[i].i_class = HX_CLASS_WAVE_RESOURCE_DATA
     /\ entries[i].p_data # NULL
     /\ Bit(entries[i].p_data.res_data.flags[1], 1)
     /\ entries[i].p_data.default_cuuid # HX_INVALID_CUUID}

\* C23: on the HXG variant, reading or writing a WavResData whose flags have
\* the multiple bit (0x02) set and whose default CUUID is not zero is
\* rejected by an enforced assertion; it is never accepted as a valid entry.
C23_DefaultCuuidAsserted ==
  /\ (last.op = "open" /\ ~hx.null /\ hx.version = HX_VERSION_HXG
        /\ DefaultedWavResData(hx.entries) # {}) => flags.abort
  /\ (last.op = "write" /\ last.version = HX_VERSION_HXG /\ ~hx.null
        /\ DefaultedWavResData(hx.entries) # {}) => flags.abort

\* an HXG file whose WavResData has the flags 0x02 and the default CUUID of
\* its WaveFileIdObj has been opened without an error, and written again
C23_AcceptedAndWritten ==
  /\ scn.scene = "default" /\ scn.v = HX_VERSION_HXG
  /\ Wrote /\ last.version = HX_VERSION_HXG
  /\ errs = <<>> /\ ~flags.abort
  /\ \E i \in DefaultedWavResData(snap.before) :
       /\ snap.before[i].p_data.default_cuuid = CUUID_F1
       /\ WrittenRecords[i].cuuid = snap.before[i].i_cuuid

\* C24: psx_decode writes only inside the output buffer it allocated: for
\* every channel count >= 1 and every input size, every output index
\* frame*28*channels + s*channels + c it stores to is less than out->size / 2.
C24_PsxStoresInside ==
  PsxDecoded => ~audio.wild

\* two channels of one block each: out->size is that of 28 samples, and the
\* second channel's samples went to the odd indices up to 55
C24_StoredBehind ==
  /\ PsxDecoded
  /\ audio.in.info.num_channels = 2 /\ ToNat(audio.in.size) = 2 * PSX_BYTES_PER_FRAME
  /\ audio.ret = 1
  /\ ToNat(audio.out.size) = PSX_SAMPLES_PER_FRAME * 2
  /\ Len(audio.out.data.pcm) = PSX_SAMPLES_PER_FRAME
  /\ audio.wild

\* C25: in dsp_decode the coefficient indices predictor*2 and predictor*2 + 1
\* always lie within the 16 coefficients of the channel header, for every
\* predictor-scaler byte a frame can hold (predictor 0..15).
C25_CoefficientsInHeader ==
  DspDecoded => \A k \in 1 .. Len(audio.c_at) : audio.c_at[k] < DSP_COEFFICIENTS

\* one channel of 15 samples whose second frame starts with 0x8C: its pair
\* was read at c[16] and c[17], where the struct holds gain and ps
C25_ReadBehindCoefficients ==
  /\ DspDecoded
  /\ audio.in.info.num_channels = 1 /\ HeaderSamples(audio.in, 0) = 15
  /\ InByte(audio.in, FrameAt(audio.in, 1, 0)) = 140
  /\ audio.ps_at = <<FrameAt(audio.in, 0, 0), FrameAt(audio.in, 1, 0)>>
  /\ audio.c_at = <<2, 3, 16, 17>> \/ audio.c_at = <<4, 5, 16, 17>>

\* C26: the post-read pass only dereferences entries that exist and have
\* the expected class: for every EventResData link and every WavResData
\* language link, either the lookup finds an entry (and for a language link
\* that entry is a WaveFileIdObj) or the link is skipped; a dangling link or
\* a link to another class never leads to a null or mistyped access.
C26_OnlyExistingEntries ==
  (call.op = "post" /\ call.passes >= 1) => ~flags.wild

\* the pass has run on an HXG context whose event links a CUUID that no
\* entry has: the entry pointer it read i_class through was NULL
C26_DanglingLink ==
  /\ call.op = "post" /\ call.passes = 1
  /\ scn.v = HX_VERSION_HXG /\ Len(hx.entries) = 2
  /\ \E i \in 1 .. 2 :
       /\ hx.entries[i].i_class = HX_CLASS_EVENT_RESOURCE_DATA
       /\ hx_context_find_entry(hx.entries, hx.entries[i].p_data.link, 1) = 0
  /\ flags.wild

(***************************************************************************)
(* ProgramResData: the scan of the captured bytes for embedded links.      *)
(***************************************************************************)
HX_PROGRAM_LINKS == 256
Programs(entries) ==
  {i \in 1 .. Len(entries) :
     entries[i].i_class = HX_CLASS_PROGRAM_RESOURCE_DATA /\ entries[i].p_data # NULL}

\* C27: the ProgramResData link scan stays within its bounds for every blob:
\* the number of recorded embedded links never exceeds the 256 slots of the
\* link array, and every byte it inspects (the 'E' marker and the CUUID bytes
\* after it) lies inside the captured blob.
C27_ScanInBounds ==
  (~hx.null /\ last.op = "open") =>
    \A i \in Programs(hx.entries) :
      /\ hx.entries[i].p_data.num_links <= HX_PROGRAM_LINKS
      /\ ~hx.entries[i].p_data.scan_over

\* a program has been read whose captured bytes hold an E among the last
\* eight: the CUUID behind it was read past the end of the bytes allocated
C27_MarkerNearEnd ==
  /\ ~hx.null /\ last.op = "open" /\ ret = 0 /\ scn.scene = "program"
  /\ \E i \in Programs(hx.entries) :
       /\ Len(hx.entries[i].p_data.data) = ToNat(hx.entries[i]._file_size)
       /\ \E k \in Len(hx.entries[i].p_data.data) - 7 .. Len(hx.entries[i].p_data.data) :
            hx.entries[i].p_data.data[k] = 69
       /\ hx.entries[i].p_data.links = <<CUUID_F1>>
       /\ hx.entries[i].p_data.scan_over

\* the entries of the WaveFileIdObject class that name an external stream
ExternalWaves(entries) ==
  {i \in 1 .. Len(entries) :
     /\ entries[i].i_class = HX_CLASS_WAVE_FILE_ID_OBJECT
     /\ entries[i].p_data # NULL
     /\ External(entries[i].p_data)}

\* C28: hx_context_write does not change the entries in memory: across every
\* call of it the context holds the same entries with the same class, CUUID
\* and body (the filename of an external stream of a WaveFileIdObj on HX2
\* included), so that consecutive writes of the same variant start from the
\* same bodies and emit the same bytes.
C28_WriteKeepsEntries ==
  [][(~hx.null /\ last'.op = "write" /\ calls' = calls + 1)
       => SameEntries(hx'.entries, hx.entries)]_vars

\* a context read from an HX2 file with an external stream was written twice
\* as HX2: the filename the file gave as ".\a.ps", held as "a.ps" after the
\* read, has ".\" before it twice
C28_NameGrewTwice ==
  /\ ~hx.null /\ last.op = "write" /\ last.hx2 = 0 /\ calls = 3
  /\ scn.scene = "external" /\ scn.v = HX_VERSION_HX2 /\ scn.t = HX_VERSION_HX2
  /\ \E i \in ExternalWaves(hx.entries) :
       /\ hx.entries[i].p_data.ext_stream_filename
            = Str_DotBackslash \o Str_DotBackslash \o Str_a_ps
       /\ snap.before[i].p_data.ext_stream_filename = Str_DotBackslash \o Str_a_ps


\* C29: hx_context_write leaves the stream of the context as it was before
\* the call, when HX2 succeeds and when it fails (a context without entries,
\* for one): after the call hx->stream is the stream the context held before
\* and not the write stream the call allocated.
C29_StreamRestored ==
  [][(~hx.null /\ last'.op = "write" /\ calls' = calls + 1)
       => hx'.stream = hx.stream]_vars

\* hx_context_write of a context without entries has returned after HX2
\* failed with "file contains no entries": the context holds the write
\* stream of 0x4FFFFF bytes the call allocated
C29_WriteStreamKept ==
  /\ ~hx.null /\ last.op = "write" /\ last.hx2 # 0
  /\ Len(hx.entries) = 0
  /\ hx.stream.mode = STREAM_MODE_WRITE /\ hx.stream.size = 5242879


\* C30: after every successful read, of a file with index type 1 as of one
\* with index type 2, every entry's link list has been set by the read and
\* holds exactly num_links CUUIDs, and its language-link list holds exactly
\* num_languages records, so that a later write or free of the context only
\* touches lists the read has set.
C30_ListsMatchCounts ==
  (~hx.null /\ last.op = "open" /\ ret = 0) =>
    \A i \in 1 .. Len(hx.entries) :
      /\ hx.entries[i].links_set
      /\ Len(hx.entries[i].links) = ToNat(hx.entries[i].num_links)
      /\ Len(hx.entries[i].language_links) = ToNat(hx.entries[i].num_languages)

\* a file with index type 1 was read with success: an entry has the
\* num_links of its index record, which is not 0, and a link list that the
\* read has neither allocated nor filled
C30_Type1LinksUnset ==
  /\ ~hx.null /\ last.op = "open" /\ ret = 0
  /\ scn.scene = "type1"
  /\ \E i \in 1 .. Len(hx.entries) :
       /\ ToNat(hx.entries[i].num_links) > 0
       /\ ~hx.entries[i].links_set
       /\ hx.entries[i].links = <<>>
       /\ hx.entries[i].num_languages = Word0

====
